---- MODULE Spec2Model ----
(***************************************************************************)
(* Multi-agent banking assistant: the keyword routing graph                *)
(* (multi_agent_banking.py), the agent/tool registry and the trace         *)
(* reconciler of ChatHistoryManager (chat_data_model.py), and the          *)
(* content-safety logging endpoint (agent_analytics.py).                   *)
(*                                                                         *)
(* Text is a sequence of one-character strings, so that lower() and the    *)
(* substring test of coordinator_node are computed, not assumed.           *)
(***************************************************************************)
EXTENDS Integers, Sequences, FiniteSets, TLC

VARIABLES
  state,        \* BankingAgentState carried through the routing graph
  node,         \* node the routing graph is about to execute
  visited,      \* nodes executed so far in this graph run, in order
  graphRaised,  \* TRUE when a node raised and the exception left the graph
  chatSessions, \* chat_sessions table: sequence of rows
  chatHistory,  \* chat_history table: sequence of rows in insertion order
  agentTraces,  \* agent_traces table: sequence of rows in insertion order
  toolUsage,    \* tool_usage table: sequence of rows
  agentDefs,    \* agent_definitions table: sequence of rows
  toolDefs,     \* tool_definitions table: sequence of rows
  nextId,       \* source of fresh uuid4 values
  lastCall,     \* the last completed request: its operation, input and outcome
  calls,        \* number of requests served so far
  pc,           \* per worker: position inside get_or_create_*_definition
  callArgs,     \* per worker: arguments of the call in progress
  returns,      \* finished get_or_create calls, in order of return
  pending,      \* per worker: position and uncommitted rows of a seeding run
  accounts,     \* accounts table of the banking store: account id -> row
  transactions  \* transactions table of the banking store, in insertion order

vars == << state, node, visited, graphRaised, chatSessions, chatHistory,
           agentTraces, toolUsage, agentDefs, toolDefs, nextId, lastCall,
           calls, pc, callArgs, returns, pending, accounts, transactions >>

routingVars == << state, node, visited, graphRaised >>
storeVars == << chatSessions, chatHistory, agentTraces, toolUsage,
                agentDefs, toolDefs, nextId >>
requestVars == << lastCall, calls >>
workerVars == << pc, callArgs, returns, pending >>
bankVars == << accounts, transactions >>

\* Python None / SQL NULL in a string-valued place
NULL == "NULL"

(***************************************************************************)
(* Bounds                                                                  *)
(***************************************************************************)
\* a message content is the concatenation of at most MaxFrags fragments
MaxFrags == 2
\* number of messages in the history handed to the routing graph
MaxHist == 2

(***************************************************************************)
(* Text helpers                                                            *)
(***************************************************************************)
UpperChars == <<"A","B","C","D","E","F","G","H","I","J","K","L","M","N","O","P","Q","R","S","T","U","V","W","X","Y","Z">>
LowerChars == <<"a","b","c","d","e","f","g","h","i","j","k","l","m","n","o","p","q","r","s","t","u","v","w","x","y","z">>

\* str.lower() on one character
LowerChar(c) ==
  IF \E i \in 1..Len(UpperChars) : UpperChars[i] = c
    THEN LowerChars[CHOOSE i \in 1..Len(UpperChars) : UpperChars[i] = c]
    ELSE c

\* the text as it is, case kept
LowerSkipped(s) == s

\* str.lower()
Lower(s) == [i \in 1..Len(s) |-> LowerChar(s[i])]

\* Python's `k in s` for strings
IsSubstring(k, s) ==
  \E off \in 0..(Len(s) - Len(k)) : SubSeq(s, off + 1, off + Len(k)) = k

account_keywords ==
  << <<"a","c","c","o","u","n","t">>,
     <<"b","a","l","a","n","c","e">>,
     <<"t","r","a","n","s","a","c","t","i","o","n">>,
     <<"t","r","a","n","s","f","e","r">>,
     <<"p","a","y","m","e","n","t">>,
     <<"s","p","e","n","d","i","n","g">>,
     <<"s","u","m","m","a","r","y">>,
     <<"h","i","s","t","o","r","y">>,
     <<"m","o","n","e","y">>,
     <<"d","e","p","o","s","i","t">>,
     <<"w","i","t","h","d","r","a","w">>,
     <<"c","r","e","d","i","t">>,
     <<"d","e","b","i","t">>,
     <<"c","h","e","c","k","i","n","g">>,
     <<"s","a","v","i","n","g","s">>,
     <<"e","x","p","e","n","s","e">>,
     <<"i","n","c","o","m","e">>,
     <<"b","r","e","a","k","d","o","w","n">>,
     <<"i","n","c","o","m","e">>,
     <<"s","t","a","t","e","m","e","n","t">>,
     <<"f","u","n","d","s">>,
     <<"p","a","y">>,
     <<"s","e","n","d">>,
     <<"r","e","c","e","i","v","e">> >>

\* pieces from which user messages are assembled
Fragments ==
  { <<"H","o","w"," ","d","o"," ","I"," ","r","e","s","e","t"," ","m","y"," ","P","I","N","?">>,
    <<"w","h","a","t","'","s"," ","m","y"," ","b","a","l","a","n","c","e">>,
    <<"B","a","l">>,
    <<"A","N","C","E">>,
    <<"p","a">>,
    <<"Y">> }

RECURSIVE ContentsUpTo(_)
ContentsUpTo(n) ==
  IF n = 0 THEN { <<>> }
  ELSE ContentsUpTo(n - 1) \cup
       { c \o f : c \in ContentsUpTo(n - 1), f \in Fragments }

Contents == ContentsUpTo(MaxFrags)

\* the earlier messages of a conversation, one fragment (or nothing) each
RECURSIVE EarlierUpTo(_)
EarlierUpTo(n) ==
  IF n <= 0 THEN { <<>> }
  ELSE EarlierUpTo(n - 1) \cup
       { Append(h, [content |-> c]) : h \in EarlierUpTo(n - 1), c \in ContentsUpTo(1) }

\* state["messages"]: empty, or earlier messages and then the latest one
Histories ==
  { <<>> } \cup
  { Append(h, [content |-> c]) : h \in EarlierUpTo(MaxHist - 1), c \in Contents }

(***************************************************************************)
(* Routing graph (multi_agent_banking.py)                                  *)
(***************************************************************************)
\* any(keyword in message_lower for keyword in account_keywords)
AnyKeyword(message_lower) ==
  \E i \in 1..Len(account_keywords) : IsSubstring(account_keywords[i], message_lower)

\* coordinator_node reading messages[-1] without the guard for an empty history
coordinator_node_unguarded(s) ==
  IF Len(s.messages) = 0 THEN s
  ELSE IF AnyKeyword(Lower(s.messages[Len(s.messages)].content))
    THEN [s EXCEPT !.current_agent = "account_agent",
                   !.task_type = "account_management"]
    ELSE [s EXCEPT !.current_agent = "support_agent",
                   !.task_type = "customer_support"]

\* coordinator_node taking the message it classified out of the history
coordinator_node_consuming(s) ==
  LET messages == s.messages
      last_message == IF Len(messages) > 0 THEN messages[Len(messages)].content ELSE <<>>
      rest == IF Len(messages) > 0 THEN SubSeq(messages, 1, Len(messages) - 1) ELSE <<>>
      message_lower == Lower(last_message)
  IN IF AnyKeyword(message_lower)
       THEN [s EXCEPT !.current_agent = "account_agent",
                      !.task_type = "account_management", !.messages = rest]
       ELSE [s EXCEPT !.current_agent = "support_agent",
                      !.task_type = "customer_support", !.messages = rest]

coordinator_node(s) ==
  LET messages == s.messages
      last_message == IF Len(messages) > 0 THEN messages[Len(messages)].content ELSE <<>>
      message_lower == Lower(last_message)
  IN IF AnyKeyword(message_lower)
       THEN [s EXCEPT !.current_agent = "account_agent",
                      !.task_type = "account_management"]
       ELSE [s EXCEPT !.current_agent = "support_agent",
                      !.task_type = "customer_support"]

route_to_specialist(s) == s.current_agent

\* the mapping given to add_conditional_edges
ConditionalEdges ==
  [account_agent |-> "account_agent", support_agent |-> "support_agent"]

\* a specialist handing the turn back to the coordinator
EdgeBackToCoordinator(n) == "coordinator"

\* add_edge(<specialist>, END)
EdgeAfter(n) == "__end__"

\* what a specialist's react agent can hand back: a final text
AgentReplies == { <<"o","k">>, <<"s","e","n","d">> }

InitRouting ==
  /\ state \in { [messages |-> h, current_agent |-> "", task_type |-> "",
                  user_id |-> "u1", session_id |-> "s1", final_result |-> <<>>]
                 : h \in Histories }
  /\ node = "coordinator"
  /\ visited = <<>>
  /\ graphRaised = FALSE

\* the coordinator node followed by the conditional edge
CoordinatorStep ==
  /\ node = "coordinator"
  /\ LET s == coordinator_node(state)
         target == route_to_specialist(s)
     IN /\ state' = s
        /\ visited' = Append(visited, "coordinator")
        /\ IF target \in DOMAIN ConditionalEdges
             THEN /\ node' = ConditionalEdges[target]
                  /\ graphRaised' = FALSE
             ELSE /\ node' = "__end__"
                  /\ graphRaised' = TRUE

\* account_agent_node / support_agent_node returning normally
SpecialistStep(n) ==
  /\ node = n
  /\ \E reply \in AgentReplies :
       state' = [state EXCEPT !.messages = Append(state.messages, [content |-> reply]),
                              !.final_result = reply]
  /\ visited' = Append(visited, n)
  /\ node' = EdgeAfter(n)
  /\ UNCHANGED graphRaised

\* account_agent_node / support_agent_node raising: the exception leaves the graph
SpecialistRaise(n) ==
  /\ node = n
  /\ visited' = Append(visited, n)
  /\ node' = "__end__"
  /\ graphRaised' = TRUE
  /\ UNCHANGED state

AccountAgentStep == SpecialistStep("account_agent")
SupportAgentStep == SpecialistStep("support_agent")
AccountAgentRaise == SpecialistRaise("account_agent")
SupportAgentRaise == SpecialistRaise("support_agent")


(***************************************************************************)
(* Persistent store (chat_data_model.py)                                   *)
(***************************************************************************)
\* SQL NULL in an Integer column
NoneInt == -1
\* SQL NULL in a column that holds text kept as a character sequence
NoneText == << NULL >>

\* number of requests the analytics service serves in one run of the model
MaxCalls == 2
\* number of tool rounds in one conversation turn
MaxRounds == 2

\* str(uuid.uuid4()) behind a column prefix
FreshId(prefix, n) == prefix \o ToString(n)

\* Query.filter_by(<col>=v).first() over a table kept as a sequence of rows
HasRow(table, col, v) == \E i \in 1..Len(table) : table[i][col] = v
FirstRow(table, col, v) ==
  table[CHOOSE i \in 1..Len(table) :
          /\ table[i][col] = v
          /\ \A j \in 1..(i - 1) : table[j][col] # v]

\* the store as one value, so that a handler is a function from store to store
Db ==
  [chatSessions |-> chatSessions, chatHistory |-> chatHistory,
   agentTraces |-> agentTraces, toolUsage |-> toolUsage,
   agentDefs |-> agentDefs, toolDefs |-> toolDefs, nextId |-> nextId]

EmptyDb ==
  [chatSessions |-> <<>>, chatHistory |-> <<>>, agentTraces |-> <<>>,
   toolUsage |-> <<>>, agentDefs |-> <<>>, toolDefs |-> <<>>, nextId |-> 1]

\* ---- registry: lookup and insert halves of get_or_create_*_definition ----

\* the query filtering on the wrong column, so that it never finds the row
LookupAgentWrongColumn(defs, agent_name) ==
  IF HasRow(defs, "agent_id", agent_name)
    THEN FirstRow(defs, "agent_id", agent_name).agent_id
    ELSE NULL

\* AgentDefinition.query.filter_by(name=agent_name).first() -> agent_id or None
LookupAgent(defs, agent_name) ==
  IF HasRow(defs, "name", agent_name) THEN FirstRow(defs, "name", agent_name).agent_id
  ELSE NULL

\* the insert on a table whose name column has no unique constraint
InsertAgentNoUniqueName(db, agent_name, description) ==
  IF agent_name = NULL
    THEN [db |-> db, id |-> NULL]
    ELSE [db |-> [db EXCEPT
                    !.agentDefs = Append(@, [agent_id |-> FreshId("agent_", db.nextId),
                                             name |-> agent_name,
                                             description |-> description]),
                    !.nextId = @ + 1],
          id |-> FreshId("agent_", db.nextId)]

\* db.session.add(new_agent); db.session.commit() under unique, non-null name;
\* a violated constraint is caught: rollback() and return None
InsertAgent(db, agent_name, description) ==
  IF agent_name = NULL \/ HasRow(db.agentDefs, "name", agent_name)
    THEN [db |-> db, id |-> NULL]
    ELSE LET new_id == FreshId("agent_", db.nextId)
         IN [db |-> [db EXCEPT
                       !.agentDefs = Append(@, [agent_id |-> new_id,
                                                name |-> agent_name,
                                                description |-> description]),
                       !.nextId = @ + 1],
             id |-> new_id]

\* description or f"Dynamically discovered agent: {agent_name}"
DefaultAgentDescription(description) ==
  IF description = NULL THEN "Dynamically discovered agent" ELSE description

get_or_create_agent_definition(db, agent_name, description) ==
  LET existing == LookupAgent(db.agentDefs, agent_name)
  IN IF existing # NULL THEN [db |-> db, id |-> existing]
     ELSE InsertAgent(db, agent_name, DefaultAgentDescription(description))

\* ToolDefinition.query.filter_by(name=tool_name).first() -> tool_id or None
LookupTool(defs, tool_name) ==
  IF HasRow(defs, "name", tool_name) THEN FirstRow(defs, "name", tool_name).tool_id
  ELSE NULL

InsertTool(db, tool_name, description) ==
  IF tool_name = NULL \/ HasRow(db.toolDefs, "name", tool_name)
    THEN [db |-> db, id |-> NULL]
    ELSE LET new_id == FreshId("tooldef_", db.nextId)
         IN [db |-> [db EXCEPT
                       !.toolDefs = Append(@, [tool_id |-> new_id,
                                               name |-> tool_name,
                                               description |-> description]),
                       !.nextId = @ + 1],
             id |-> new_id]

\* description or f"Dynamically discovered tool: {tool_name}"
DefaultToolDescription(description) ==
  IF description = NULL THEN "Dynamically discovered tool" ELSE description

get_or_create_tool_definition(db, tool_name, description) ==
  LET existing == LookupTool(db.toolDefs, tool_name)
  IN IF existing # NULL THEN [db |-> db, id |-> existing]
     ELSE InsertTool(db, tool_name, DefaultToolDescription(description))

\* ---- startup seeding ----
SeedTools ==
  << "get_user_accounts_tool", "create_new_account_tool", "transfer_money_tool",
     "get_transactions_summary_tool", "search_support_documents", "query_database" >>
SeedAgents == << "account_agent", "transaction_agent", "support_agent" >>

RECURSIVE SeedToolsFrom(_, _)
SeedToolsFrom(db, i) ==
  IF i > Len(SeedTools) THEN db
  ELSE IF HasRow(db.toolDefs, "name", SeedTools[i]) THEN SeedToolsFrom(db, i + 1)
  ELSE SeedToolsFrom(
         [db EXCEPT !.toolDefs = Append(@, [tool_id |-> FreshId("tooldef_", db.nextId),
                                            name |-> SeedTools[i],
                                            description |-> "seed"]),
                    !.nextId = @ + 1], i + 1)

initialize_tool_definitions(db) == SeedToolsFrom(db, 1)

RECURSIVE SeedAgentsFrom(_, _)
SeedAgentsFrom(db, i) ==
  IF i > Len(SeedAgents) THEN db
  ELSE IF HasRow(db.agentDefs, "name", SeedAgents[i]) THEN SeedAgentsFrom(db, i + 1)
  ELSE SeedAgentsFrom(
         [db EXCEPT !.agentDefs = Append(@, [agent_id |-> FreshId("agent_", db.nextId),
                                             name |-> SeedAgents[i],
                                             description |-> "seed"]),
                    !.nextId = @ + 1], i + 1)

initialize_agent_definitions(db) == SeedAgentsFrom(db, 1)

\* initialize_analytics_app: create_all, then both seedings
SeededDb == initialize_agent_definitions(initialize_tool_definitions(EmptyDb))


\* ---- ChatHistoryManager: session and record writers ----

\* the session row written anew at every construction
ensure_session_exists_replacing(db, session_id, user_id) ==
  [db EXCEPT !.chatSessions =
     SelectSeq(@, LAMBDA row : row.session_id # session_id)
       \o << [session_id |-> session_id, user_id |-> user_id,
              title |-> "New Session", total_agents_used |-> 0,
              agent_names_used |-> <<>>] >>]

\* ChatHistoryManager.__init__ -> _ensure_session_exists
ensure_session_exists(db, session_id, user_id) ==
  IF HasRow(db.chatSessions, "session_id", session_id) THEN db
  ELSE [db EXCEPT !.chatSessions =
          Append(@, [session_id |-> session_id, user_id |-> user_id,
                     title |-> "New Session", total_agents_used |-> 0,
                     agent_names_used |-> <<>>])]

\* _log_agent_routing: one AgentTrace row; success keeps its column default
log_agent_routing(db, session_id, user_id, trace_id, step_number, from_agent, current_agent, execution_duration_ms) ==
  [db EXCEPT !.agentTraces =
     Append(@, [trace_step_id |-> FreshId("step_", db.nextId),
                session_id |-> session_id, trace_id |-> trace_id,
                user_id |-> user_id, step_order |-> step_number,
                from_agent |-> from_agent, current_agent |-> current_agent,
                execution_duration_ms |-> execution_duration_ms,
                success |-> TRUE, error_message |-> NULL]),
             !.nextId = @ + 1]

\* session.merge in place of session.add: a duplicate key overwrites the row
InsertChatHistoryMerging(db, row) ==
  IF HasRow(db.chatHistory, "message_id", row.message_id)
    THEN [db |-> [db EXCEPT !.chatHistory =
                    [i \in 1..Len(@) |->
                       IF @[i].message_id = row.message_id THEN row ELSE @[i]]],
          raised |-> FALSE]
    ELSE [db |-> [db EXCEPT !.chatHistory = Append(@, row)], raised |-> FALSE]

\* db.session.add(row); db.session.commit() on chat_history, whose primary
\* key is message_id: a duplicate key raises IntegrityError out of the writer
InsertChatHistory(db, row) ==
  IF HasRow(db.chatHistory, "message_id", row.message_id)
    THEN [db |-> db, raised |-> TRUE]
    ELSE [db |-> [db EXCEPT !.chatHistory = Append(@, row)], raised |-> FALSE]

\* a chat_history row with every optional column NULL
BlankRow(message_id, session_id, user_id, trace_id, message_type) ==
  [message_id |-> message_id, session_id |-> session_id, trace_id |-> trace_id,
   user_id |-> user_id, agent_id |-> NULL, agent_name |-> NULL,
   routing_step |-> NoneInt, message_type |-> message_type, content |-> NoneText,
   total_tokens |-> NoneInt, tool_id |-> NULL, tool_name |-> NULL,
   tool_input |-> NULL, tool_output |-> NoneText, tool_call_id |-> NULL,
   finish_reason |-> NULL, response_time_ms |-> NoneInt]

\* the human row keyed by a fresh uuid instead of the event's id
add_human_message_fresh_key(db, session_id, user_id, message, trace_id, routing_step) ==
  [db |-> [db EXCEPT
             !.chatHistory =
                Append(@, [BlankRow(FreshId("msg_", db.nextId), session_id,
                                    user_id, trace_id, "human")
                             EXCEPT !.content = message.content,
                                    !.routing_step = routing_step]),
             !.nextId = @ + 1],
   raised |-> FALSE]

add_human_message(db, session_id, user_id, message, trace_id, routing_step) ==
  InsertChatHistory(db,
    [BlankRow(message.id, session_id, user_id, trace_id, "human")
       EXCEPT !.content = message.content, !.routing_step = routing_step])

\* agent_id stays None for the pseudo-agent "system"
AgentIdFor(db, agent_name) ==
  IF agent_name # "system"
    THEN get_or_create_agent_definition(db, agent_name, NULL)
    ELSE [db |-> db, id |-> NULL]

\* the ai row written without the name of the hop's agent
add_ai_message_untagged(db, session_id, user_id, message, trace_id, step_duration, agent_name, routing_step) ==
  LET a == AgentIdFor(db, agent_name)
  IN InsertChatHistory(a.db,
       [BlankRow(message.id, session_id, user_id, trace_id, "ai")
          EXCEPT !.agent_id = a.id,
                 !.content = message.content, !.routing_step = routing_step,
                 !.total_tokens = message.total_tokens,
                 !.finish_reason = message.finish_reason,
                 !.response_time_ms = step_duration])

add_ai_message(db, session_id, user_id, message, trace_id, step_duration, agent_name, routing_step) ==
  LET a == AgentIdFor(db, agent_name)
  IN InsertChatHistory(a.db,
       [BlankRow(message.id, session_id, user_id, trace_id, "ai")
          EXCEPT !.agent_id = a.id, !.agent_name = agent_name,
                 !.content = message.content, !.routing_step = routing_step,
                 !.total_tokens = message.total_tokens,
                 !.finish_reason = message.finish_reason,
                 !.response_time_ms = step_duration])

\* the last requested call taken in place of the first
LastToolCall(message) ==
  IF message.tool_calls = <<>>
    THEN [id |-> NULL, name |-> NULL, arguments |-> NULL]
    ELSE message.tool_calls[Len(message.tool_calls)]

\* message.get("additional_kwargs", {}).get('tool_calls', [{}])[0]
FirstToolCall(message) ==
  IF Len(message.tool_calls) = 0
    THEN [id |-> NULL, name |-> NULL, arguments |-> NULL]
    ELSE message.tool_calls[1]

add_tool_call_message(db, session_id, user_id, message, trace_id, agent_name, routing_step) ==
  LET a == AgentIdFor(db, agent_name)
      call == FirstToolCall(message)
      tool_name == call.name
      t == get_or_create_tool_definition(a.db, tool_name, "Tool used by agent")
      r == InsertChatHistory(t.db,
             [BlankRow(message.id, session_id, user_id, trace_id, "tool_call")
                EXCEPT !.agent_id = a.id, !.agent_name = agent_name,
                       !.routing_step = routing_step, !.tool_id = t.id,
                       !.tool_call_id = call.id, !.tool_name = tool_name,
                       !.total_tokens = message.total_tokens,
                       !.tool_input = call.arguments,
                       !.finish_reason = message.finish_reason])
  IN [db |-> r.db, raised |-> r.raised,
      dict |-> [tool_call_id |-> call.id, tool_id |-> t.id,
                tool_name |-> tool_name, tool_input |-> call.arguments,
                total_tokens |-> message.total_tokens]]

add_tool_result_message(db, session_id, user_id, message, trace_id, agent_name, routing_step) ==
  LET a == AgentIdFor(db, agent_name)
      t == get_or_create_tool_definition(a.db, message.name, "Tool used by agent")
      r == InsertChatHistory(t.db,
             [BlankRow(message.id, session_id, user_id, trace_id, "tool_result")
                EXCEPT !.tool_id = t.id, !.tool_call_id = message.tool_call_id,
                       !.agent_id = a.id, !.agent_name = agent_name,
                       !.routing_step = routing_step, !.tool_name = message.name,
                       !.content = <<>>, !.tool_output = message.content])
  IN [db |-> r.db, raised |-> r.raised,
      dict |-> [tool_output |-> message.content, status |-> message.status]]

\* replace the first row whose column col equals v
RECURSIVE UpdateFirst(_, _, _, _)
UpdateFirst(table, col, v, row) ==
  IF table = <<>> THEN <<>>
  ELSE IF Head(table)[col] = v THEN <<row>> \o Tail(table)
  ELSE <<Head(table)>> \o UpdateFirst(Tail(table), col, v, row)

\* the counter incremented for every hop, whether or not the name is new
update_session_stats_every_hop(db, session_id, agent_name) ==
  IF ~HasRow(db.chatSessions, "session_id", session_id) THEN db
  ELSE LET session == FirstRow(db.chatSessions, "session_id", session_id)
           agent_names == session.agent_names_used
       IN [db EXCEPT !.chatSessions =
             UpdateFirst(@, "session_id", session_id,
               [session EXCEPT
                  !.agent_names_used =
                     IF \E i \in 1..Len(agent_names) : agent_names[i] = agent_name
                       THEN agent_names ELSE Append(agent_names, agent_name),
                  !.total_agents_used = session.total_agents_used + 1])]

update_session_stats(db, session_id, agent_name) ==
  IF ~HasRow(db.chatSessions, "session_id", session_id) THEN db
  ELSE LET session == FirstRow(db.chatSessions, "session_id", session_id)
           agent_names == session.agent_names_used
       IN IF \E i \in 1..Len(agent_names) : agent_names[i] = agent_name
            THEN db
            ELSE [db EXCEPT !.chatSessions =
                    UpdateFirst(@, "session_id", session_id,
                      [session EXCEPT
                         !.agent_names_used = Append(agent_names, agent_name),
                         !.total_agents_used =
                            IF session.total_agents_used # 0
                              THEN session.total_agents_used + 1 ELSE 1])]

\* "error" in str(tool_output).lower()
ToolCallStatus(tool_output) ==
  IF IsSubstring(<<"e","r","r","o","r">>, Lower(tool_output))
    THEN "Errored" ELSE "Healthy"

log_tool_usage(db, session_id, tool_info, trace_id, agent_name) ==
  LET existing == HasRow(db.toolUsage, "tool_call_id", tool_info.tool_call_id)
      tool_msg == tool_info.tool_output
      tool_call_status == ToolCallStatus(tool_info.tool_output)
      t == IF tool_info.tool_id = NULL
             THEN get_or_create_tool_definition(db, tool_info.tool_name, "Tool used by agent")
             ELSE [db |-> db, id |-> tool_info.tool_id]
      row == [session_id |-> session_id, trace_id |-> trace_id,
              tool_call_id |-> IF tool_info.tool_call_id = NULL
                                 THEN FreshId("tool_", t.db.nextId)
                                 ELSE tool_info.tool_call_id,
              tool_id |-> t.id, tool_name |-> tool_info.tool_name,
              tool_input |-> tool_info.tool_input,
              tool_output |-> tool_info.tool_output, tool_message |-> tool_msg,
              status |-> tool_call_status, tokens_used |-> tool_info.total_tokens,
              executing_agent |-> agent_name]
  IN IF t.id = NULL THEN t.db
     ELSE IF existing
       THEN [t.db EXCEPT !.toolUsage =
               UpdateFirst(@, "tool_call_id", tool_info.tool_call_id, row)]
       ELSE [t.db EXCEPT !.toolUsage = Append(@, row),
                         !.nextId = IF tool_info.tool_call_id = NULL THEN @ + 1 ELSE @]


\* ---- add_multi_agent_trace ----

\* loop state of add_multi_agent_trace: the store, the locals id_list,
\* prev_agent and tool_call_dict (has_tcd: whether the local is bound), and
\* whether an exception has left the method
LoopStart(db) ==
  [db |-> db, id_list |-> {}, prev_agent |-> "system", has_tcd |-> FALSE,
   tcd |-> [tool_call_id |-> NULL, tool_id |-> NULL, tool_name |-> NULL,
            tool_input |-> NULL, total_tokens |-> NoneInt,
            tool_output |-> NoneText, status |-> NULL],
   raised |-> FALSE]

\* body of `for msg in trace_step_msg`
ProcessMsg(L, msg, session_id, user_id, trace_id, agent_name, step_number, step_duration) ==
  IF msg.cls = "HumanMessage" THEN
    IF msg.id \notin L.id_list
      THEN LET r == add_human_message(L.db, session_id, user_id, msg, trace_id, 0)
           IN IF r.raised THEN [L EXCEPT !.db = r.db, !.raised = TRUE]
              ELSE [L EXCEPT !.db = r.db, !.id_list = @ \cup {msg.id},
                             !.prev_agent = agent_name]
      ELSE [L EXCEPT !.prev_agent = agent_name]
  ELSE IF msg.cls = "AIMessage" THEN
    IF msg.finish_reason # "tool_calls" THEN
      IF msg.id \notin L.id_list
        THEN LET r == add_ai_message(L.db, session_id, user_id, msg, trace_id,
                                     step_duration, agent_name, step_number)
             IN IF r.raised THEN [L EXCEPT !.db = r.db, !.raised = TRUE]
                ELSE [L EXCEPT !.db = r.db, !.id_list = @ \cup {msg.id},
                               !.prev_agent = agent_name]
        ELSE [L EXCEPT !.prev_agent = agent_name]
    ELSE
      LET r == add_tool_call_message(L.db, session_id, user_id, msg, trace_id,
                                     agent_name, step_number)
      IN IF r.raised THEN [L EXCEPT !.db = r.db, !.raised = TRUE]
         ELSE [L EXCEPT !.db = r.db, !.has_tcd = TRUE,
                        !.tcd = [tool_call_id |-> r.dict.tool_call_id,
                                 tool_id |-> r.dict.tool_id,
                                 tool_name |-> r.dict.tool_name,
                                 tool_input |-> r.dict.tool_input,
                                 total_tokens |-> r.dict.total_tokens,
                                 tool_output |-> NoneText, status |-> NULL],
                        !.prev_agent = agent_name]
  ELSE IF msg.cls = "ToolMessage" THEN
    LET r == add_tool_result_message(L.db, session_id, user_id, msg, trace_id,
                                     agent_name, step_number)
    IN IF r.raised THEN [L EXCEPT !.db = r.db, !.raised = TRUE]
       ELSE IF L.has_tcd
         THEN LET merged == [L.tcd EXCEPT !.tool_output = r.dict.tool_output,
                                          !.status = r.dict.status]
              IN [L EXCEPT !.db = log_tool_usage(r.db, session_id, merged,
                                                 trace_id, agent_name),
                           !.tcd = merged, !.prev_agent = agent_name]
         ELSE [L EXCEPT !.db = r.db, !.prev_agent = agent_name]
  ELSE [L EXCEPT !.prev_agent = agent_name]

RECURSIVE ProcessMsgs(_, _, _, _, _, _, _, _)
ProcessMsgs(L, msgs, session_id, user_id, trace_id, agent_name, step_number, step_duration) ==
  IF msgs = <<>> \/ L.raised THEN L
  ELSE ProcessMsgs(
         ProcessMsg(L, Head(msgs), session_id, user_id, trace_id, agent_name,
                    step_number, step_duration),
         Tail(msgs), session_id, user_id, trace_id, agent_name, step_number,
         step_duration)

\* the seen-id list emptied at the start of every hop
ProcessHopSeenPerHop(L, hop, i, session_id, user_id, trace_id) ==
  LET agent_name == hop.agent
      step_duration == hop.event_time * 1000
      step_number == i
      routed == [L EXCEPT !.db = log_agent_routing(L.db, session_id, user_id,
                                   trace_id, step_number, L.prev_agent,
                                   agent_name, step_duration),
                          !.id_list = {}]
      after == ProcessMsgs(routed, hop.messages, session_id, user_id, trace_id,
                           agent_name, step_number, step_duration)
  IN IF after.raised THEN after
     ELSE [after EXCEPT !.db = update_session_stats(after.db, session_id, agent_name)]

\* body of `for i in range(len(serialized_messages))`
ProcessHop(L, hop, i, session_id, user_id, trace_id) ==
  LET agent_name == hop.agent
      step_duration == hop.event_time * 1000
      step_number == i
      routed == [L EXCEPT !.db = log_agent_routing(L.db, session_id, user_id,
                                   trace_id, step_number, L.prev_agent,
                                   agent_name, step_duration)]
      after == ProcessMsgs(routed, hop.messages, session_id, user_id, trace_id,
                           agent_name, step_number, step_duration)
  IN IF after.raised THEN after
     ELSE [after EXCEPT !.db = update_session_stats(after.db, session_id, agent_name)]

RECURSIVE ProcessHops(_, _, _, _, _, _)
ProcessHops(L, hops, i, session_id, user_id, trace_id) ==
  IF i > Len(hops) \/ L.raised THEN L
  ELSE ProcessHops(ProcessHop(L, hops[i], i, session_id, user_id, trace_id),
                   hops, i + 1, session_id, user_id, trace_id)

\* ChatHistoryManager(session_id, user_id).add_multi_agent_trace(...)
add_multi_agent_trace(db, session_id, user_id, hops) ==
  LET trace_id == FreshId("trace_", db.nextId)
      start == LoopStart([db EXCEPT !.nextId = @ + 1])
      done == ProcessHops(start, hops, 1, session_id, user_id, trace_id)
  IN [db |-> done.db, raised |-> done.raised, trace_id |-> trace_id]


(***************************************************************************)
(* Content-safety logging endpoint (agent_analytics.py)                    *)
(***************************************************************************)
\* the payload the turn hands to the endpoint after a policy rejection:
\* a fresh trace id and a synthetic AI refusal with a fresh message id
handle_content_safety_error(db, session_id, user_id, user_message, agent_name) ==
  [session_id |-> session_id, user_id |-> user_id,
   trace_id |-> FreshId("trace_", db.nextId),
   user_message |-> user_message, agent_name |-> agent_name,
   message |-> [cls |-> "AIMessage", id |-> FreshId("msg_", db.nextId + 1),
                content |-> <<"r","e","f","u","s","e","d">>, finish_reason |-> NULL,
                tool_calls |-> <<>>, tool_call_id |-> NULL, name |-> NULL,
                status |-> NULL, total_tokens |-> NoneInt]]

\* the whole logging placed under the `if user_message` guard
log_content_safety_violation_guarded(db0, res_dict) ==
  LET db == ensure_session_exists([db0 EXCEPT !.nextId = @ + 2],
                                  res_dict.session_id, res_dict.user_id)
      user_msg == [cls |-> "HumanMessage", id |-> FreshId("msg_", db.nextId),
                   content |-> res_dict.user_message]
      h == add_human_message([db EXCEPT !.nextId = @ + 1],
                             res_dict.session_id, res_dict.user_id,
                             user_msg, res_dict.trace_id, 0)
      a == add_ai_message(h.db, res_dict.session_id, res_dict.user_id,
                          res_dict.message, res_dict.trace_id, 0,
                          res_dict.agent_name, 1)
  IN IF res_dict.user_message = <<>> THEN [db |-> db, raised |-> FALSE]
     ELSE IF h.raised THEN [db |-> h.db, raised |-> TRUE]
     ELSE IF a.raised THEN [db |-> a.db, raised |-> TRUE]
     ELSE [db |-> log_agent_routing(a.db, res_dict.session_id, res_dict.user_id,
                                    res_dict.trace_id, 1, "system",
                                    res_dict.agent_name, 0),
           raised |-> FALSE]

\* the human row written whether or not a user message came with the payload
log_content_safety_violation_unconditional(db0, res_dict) ==
  LET db == ensure_session_exists([db0 EXCEPT !.nextId = @ + 2],
                                  res_dict.session_id, res_dict.user_id)
      user_msg == [cls |-> "HumanMessage", id |-> FreshId("msg_", db.nextId),
                   content |-> res_dict.user_message]
      h == add_human_message([db EXCEPT !.nextId = @ + 1],
                             res_dict.session_id, res_dict.user_id,
                             user_msg, res_dict.trace_id, 0)
      a == add_ai_message(h.db, res_dict.session_id, res_dict.user_id,
                          res_dict.message, res_dict.trace_id, 0,
                          res_dict.agent_name, 1)
  IN IF h.raised THEN [db |-> h.db, raised |-> TRUE]
     ELSE IF a.raised THEN [db |-> a.db, raised |-> TRUE]
     ELSE [db |-> log_agent_routing(a.db, res_dict.session_id, res_dict.user_id,
                                    res_dict.trace_id, 1, "system",
                                    res_dict.agent_name, 0),
           raised |-> FALSE]

log_content_safety_violation(db0, res_dict) ==
  LET db == ensure_session_exists([db0 EXCEPT !.nextId = @ + 2],
                                  res_dict.session_id, res_dict.user_id)
      user_msg == [cls |-> "HumanMessage", id |-> FreshId("msg_", db.nextId),
                   content |-> res_dict.user_message]
      h == IF res_dict.user_message # <<>>
             THEN add_human_message([db EXCEPT !.nextId = @ + 1],
                                    res_dict.session_id, res_dict.user_id,
                                    user_msg, res_dict.trace_id, 0)
             ELSE [db |-> db, raised |-> FALSE]
      a == add_ai_message(h.db, res_dict.session_id, res_dict.user_id,
                          res_dict.message, res_dict.trace_id, 0,
                          res_dict.agent_name, 1)
  IN IF h.raised THEN [db |-> h.db, raised |-> TRUE]
     ELSE IF a.raised THEN [db |-> a.db, raised |-> TRUE]
     ELSE [db |-> log_agent_routing(a.db, res_dict.session_id, res_dict.user_id,
                                    res_dict.trace_id, 1, "system",
                                    res_dict.agent_name, 0),
           raised |-> FALSE]

(***************************************************************************)
(* Inputs: the events one turn of the routing graph produces               *)
(***************************************************************************)
Event(cls, id, content, finish_reason, tool_calls, tool_call_id, name, status, total_tokens) ==
  [cls |-> cls, id |-> id, content |-> content, finish_reason |-> finish_reason,
   tool_calls |-> tool_calls, tool_call_id |-> tool_call_id, name |-> name,
   status |-> status, total_tokens |-> total_tokens]

ToolCallReq(id, name, arguments) == [id |-> id, name |-> name, arguments |-> arguments]

EvHuman == Event("HumanMessage", "h1", <<"b","a","l","a","n","c","e","?">>, NULL, <<>>, NULL,
                 NULL, NULL, NoneInt)
EvFinal == Event("AIMessage", "a1", <<"1","2","0","0",".","5","0">>, "stop", <<>>,
                 NULL, NULL, NULL, 30)
\* an AI turn requesting one tool call
EvCallOne == Event("AIMessage", "a2", <<>>, "tool_calls",
                   << ToolCallReq("c1", "get_user_accounts_tool", "args1") >>,
                   NULL, NULL, NULL, 10)
\* an AI turn requesting two tool calls at once
EvCallTwo == Event("AIMessage", "a3", <<>>, "tool_calls",
                   << ToolCallReq("c2", "transfer_money_tool", "args2"),
                      ToolCallReq("c3", "brand_new_tool", "args3") >>,
                   NULL, NULL, NULL, 20)
EvResult1 == Event("ToolMessage", "r1", <<"o","k">>, NULL, <<>>, "c1",
                   "get_user_accounts_tool", "success", NoneInt)
EvResult2 == Event("ToolMessage", "r2", <<"E","r","r","o","r",":"," ","n","o">>,
                   NULL, <<>>, "c2", "transfer_money_tool", "error", NoneInt)
EvResult3 == Event("ToolMessage", "r3", <<"d","o","n","e">>, NULL, <<>>, "c3",
                   "brand_new_tool", "success", NoneInt)

EvCallThree == Event("AIMessage", "a4", <<>>, "tool_calls",
                     << ToolCallReq("c4", "query_database", "args4") >>,
                     NULL, NULL, NULL, 15)
EvResult4 == Event("ToolMessage", "r4", <<"[","]">>, NULL, <<>>, "c4",
                   "query_database", "success", NoneInt)

\* a tool round of a react agent: the AI event that requests calls, then one
\* tool result per requested call, in the order requested
ToolRounds ==
  { << EvCallOne, EvResult1 >>,
    << EvCallTwo, EvResult2, EvResult3 >>,
    << EvCallThree, EvResult4 >> }

\* the rounds between the user's message and the final answer, none twice
RECURSIVE MiddlesUpTo(_)
MiddlesUpTo(n) ==
  IF n <= 0 THEN { <<>> }
  ELSE MiddlesUpTo(n - 1) \cup
       UNION { { m \o r :
                   r \in { x \in ToolRounds :
                             \A i \in 1..Len(m) : m[i].id # x[1].id } }
               : m \in MiddlesUpTo(n - 1) }

\* a tool round whose call carries no function name
EvCallNameless == Event("AIMessage", "a5", <<>>, "tool_calls", << ToolCallReq("c5", NULL, "args5") >>, NULL, NULL, NULL, 5)
EvResultNameless == Event("ToolMessage", "r5", <<"?">>, NULL, <<>>, "c5", NULL, "error", NoneInt)

\* the user's next message in the session and its answer, an AI message
\* whose metadata has no finish reason
EvHumanNext == Event("HumanMessage", "h2", <<"h","e","l","p">>, NULL, <<>>, NULL, NULL, NULL, NoneInt)
EvFinalNext == Event("AIMessage", "a6", <<"s","u","r","e">>, NULL, <<>>, NULL, NULL, NULL, 12)

Conversations ==
  { <<EvHuman>> \o m \o <<EvFinal>> : m \in MiddlesUpTo(MaxRounds) }
  \cup { << EvHuman, EvCallNameless, EvResultNameless, EvFinal >> }
  \cup { << EvHumanNext, EvFinalNext >> }

Specialists == { "account_agent", "support_agent" }

Hop(agent, event_time, messages) ==
  [agent |-> agent, event_time |-> event_time, messages |-> messages]

\* how execute_trace cuts a turn into hops: the coordinator hop carries the
\* user's message; the specialist hop carries the whole history or only what
\* it appended; or the turn arrives as one hop
\* traces of three hops and traces with an empty batch: every node hands
\* back the whole history, or a node hands back no message at all
LongTraces ==
  { << Hop("coordinator", 0, << EvHuman >>), Hop("account_agent", 1, << EvHuman, EvFinal >>),
       Hop("support_agent", 2, << EvHuman, EvFinal >>) >>,
    << Hop("coordinator", 0, << EvHuman >>), Hop("account_agent", 1, <<>>),
       Hop("support_agent", 2, << EvHuman, EvFinal >>) >>,
    << Hop("coordinator", 0, <<>>), Hop("account_agent", 1, << EvHuman, EvFinal >>) >> }

TraceInputs ==
  UNION { { << Hop("coordinator", 0, <<conv[1]>>), Hop(sp, 1, conv) >>,
            << Hop("coordinator", 0, <<conv[1]>>), Hop(sp, 1, Tail(conv)) >>,
            << Hop(sp, 1, conv) >> }
          : conv \in Conversations, sp \in Specialists }
  \cup LongTraces

UserMessages == { <<>>, <<"b","a","d">> }
RefusingAgents == { "coordinator", "system" }

(***************************************************************************)
(* Specification of the analytics store: requests served one at a time     *)
(***************************************************************************)
NoCall == [op |-> "none", hops |-> <<>>, user_message |-> <<>>, raised |-> FALSE,
           trace_id |-> NULL]

SetDb(db) ==
  /\ chatSessions' = db.chatSessions
  /\ chatHistory' = db.chatHistory
  /\ agentTraces' = db.agentTraces
  /\ toolUsage' = db.toolUsage
  /\ agentDefs' = db.agentDefs
  /\ toolDefs' = db.toolDefs
  /\ nextId' = db.nextId

InitStore ==
  /\ chatSessions = SeededDb.chatSessions
  /\ chatHistory = SeededDb.chatHistory
  /\ agentTraces = SeededDb.agentTraces
  /\ toolUsage = SeededDb.toolUsage
  /\ agentDefs = SeededDb.agentDefs
  /\ toolDefs = SeededDb.toolDefs
  /\ nextId = SeededDb.nextId


InitRequests ==
  /\ lastCall = NoCall
  /\ calls = 0

\* the routing graph is not running
InitRoutingIdle ==
  /\ state = [messages |-> <<>>, current_agent |-> "", task_type |-> "",
              user_id |-> "u1", session_id |-> "s1", final_result |-> <<>>]
  /\ node = "__end__"
  /\ visited = <<>>
  /\ graphRaised = FALSE

Workers == { 1, 2 }
NoArgs == [kind |-> "none", name |-> NULL, description |-> NULL]

\* names handed to the registry: one seeded at startup, one never seen, and
\* the missing name of a tool call without a function name
RegistryNames ==
  [agent |-> { "account_agent", "coordinator", NULL },
   tool |-> { "get_user_accounts_tool", "brand_new_tool", NULL }]
Descriptions == { NULL, "fallback description" }

\* no seeding run in progress
NoPending == [i |-> 0, names |-> <<>>]

\* the accounts of user u1 before any transfer, amounts in whole dollars
InitAccounts ==
  [id \in { "acc_1", "acc_2" } |->
     IF id = "acc_1" THEN [user_id |-> "u1", name |-> "checking", balance |-> 100]
     ELSE [user_id |-> "u1", name |-> "savings", balance |-> 50]]

InitBank ==
  /\ accounts = InitAccounts
  /\ transactions = <<>>

InitWorkers ==
  /\ pc = [w \in Workers |-> "idle"]
  /\ callArgs = [w \in Workers |-> NoArgs]
  /\ returns = <<>>
  /\ pending = [w \in Workers |-> NoPending]

Init ==
  /\ InitRoutingIdle
  /\ InitStore
  /\ InitRequests
  /\ InitWorkers
  /\ InitBank

\* POST chat/log-multi-agent-trace: a manager for the session, then the trace
Reconcile ==
  /\ calls < MaxCalls
  /\ \E hops \in TraceInputs :
       \E r \in { add_multi_agent_trace(ensure_session_exists(Db, "s1", "u1"),
                                        "s1", "u1", hops) } :
          /\ SetDb(r.db)
          /\ lastCall' = [op |-> "reconcile", hops |-> hops, user_message |-> <<>>,
                          raised |-> r.raised, trace_id |-> r.trace_id]
  /\ calls' = calls + 1
  /\ UNCHANGED << bankVars, routingVars, workerVars >>

\* POST chat/log-content-safety-violation
ContentSafety ==
  /\ calls < MaxCalls
  /\ \E user_message \in UserMessages, agent_name \in RefusingAgents :
       \E res_dict \in { handle_content_safety_error(Db, "s1", "u1", user_message,
                                                       agent_name) } :
       \E r \in { log_content_safety_violation(Db, res_dict) } :
          /\ SetDb(r.db)
          /\ lastCall' = [op |-> "content_safety", hops |-> <<>>,
                          user_message |-> user_message, raised |-> r.raised,
                          trace_id |-> res_dict.trace_id, agent_name |-> agent_name]
  /\ calls' = calls + 1
  /\ UNCHANGED << bankVars, routingVars, workerVars >>

Next == Reconcile \/ ContentSafety

Spec == Init /\ [][Next]_vars

(***************************************************************************)
(* Specification of the routing graph                                      *)
(***************************************************************************)
InitGraph ==
  /\ InitRouting
  /\ InitStore
  /\ InitRequests
  /\ InitWorkers
  /\ InitBank

NextRouting ==
  \/ CoordinatorStep /\ UNCHANGED << storeVars, requestVars, workerVars, bankVars >>
  \/ AccountAgentStep /\ UNCHANGED << storeVars, requestVars, workerVars, bankVars >>
  \/ SupportAgentStep /\ UNCHANGED << storeVars, requestVars, workerVars, bankVars >>
  \/ AccountAgentRaise /\ UNCHANGED << storeVars, requestVars, workerVars, bankVars >>
  \/ SupportAgentRaise /\ UNCHANGED << storeVars, requestVars, workerVars, bankVars >>

SpecRouting == InitGraph /\ [][NextRouting]_vars


(***************************************************************************)
(* Specification of the registry under concurrent workers: the query and   *)
(* the commit of get_or_create_*_definition are separate database round    *)
(* trips, and other workers' round trips may fall between them             *)
(***************************************************************************)
\* number of get_or_create calls begun in one run of the model
MaxRegCalls == 3

Returned(w, id) ==
  Append(returns, [worker |-> w, kind |-> callArgs'[w].kind,
                   name |-> callArgs'[w].name,
                   description |-> callArgs'[w].description, id |-> id])

\* get_or_create_agent_definition up to the query: return the id found, or
\* go on to the insert
AgentLookup(w) ==
  /\ pc[w] = "idle"
  /\ calls < MaxRegCalls
  /\ \E agent_name \in RegistryNames.agent, description \in Descriptions :
       LET existing == LookupAgent(agentDefs, agent_name)
       IN /\ callArgs' = [callArgs EXCEPT ![w] = [kind |-> "agent",
                            name |-> agent_name, description |-> description]]
          /\ IF existing # NULL
               THEN /\ returns' = Returned(w, existing)
                    /\ pc' = pc
               ELSE /\ returns' = returns
                    /\ pc' = [pc EXCEPT ![w] = "insert_agent"]
  /\ calls' = calls + 1
  /\ UNCHANGED << bankVars, routingVars, storeVars, lastCall, pending >>

\* get_or_create_agent_definition from the insert on: commit, or catch the
\* constraint violation, roll back and return None
AgentInsert(w) ==
  /\ pc[w] = "insert_agent"
  /\ LET r == InsertAgent(Db, callArgs[w].name,
                          DefaultAgentDescription(callArgs[w].description))
     IN /\ SetDb(r.db)
        /\ callArgs' = callArgs
        /\ returns' = Returned(w, r.id)
  /\ pc' = [pc EXCEPT ![w] = "idle"]
  /\ UNCHANGED << bankVars, routingVars, requestVars, pending >>

ToolLookup(w) ==
  /\ pc[w] = "idle"
  /\ calls < MaxRegCalls
  /\ \E tool_name \in RegistryNames.tool, description \in Descriptions :
       LET existing == LookupTool(toolDefs, tool_name)
       IN /\ callArgs' = [callArgs EXCEPT ![w] = [kind |-> "tool",
                            name |-> tool_name, description |-> description]]
          /\ IF existing # NULL
               THEN /\ returns' = Returned(w, existing)
                    /\ pc' = pc
               ELSE /\ returns' = returns
                    /\ pc' = [pc EXCEPT ![w] = "insert_tool"]
  /\ calls' = calls + 1
  /\ UNCHANGED << bankVars, routingVars, storeVars, lastCall, pending >>

ToolInsert(w) ==
  /\ pc[w] = "insert_tool"
  /\ LET r == InsertTool(Db, callArgs[w].name,
                         DefaultToolDescription(callArgs[w].description))
     IN /\ SetDb(r.db)
        /\ callArgs' = callArgs
        /\ returns' = Returned(w, r.id)
  /\ pc' = [pc EXCEPT ![w] = "idle"]
  /\ UNCHANGED << bankVars, routingVars, requestVars, pending >>

NextRegistry ==
  \E w \in Workers :
    \/ AgentLookup(w)
    \/ AgentInsert(w)
    \/ ToolLookup(w)
    \/ ToolInsert(w)

SpecRegistry == Init /\ [][NextRegistry]_vars

\* one worker only: every call returns before the next one begins
NextRegistrySeq ==
  \/ AgentLookup(1)
  \/ AgentInsert(1)
  \/ ToolLookup(1)
  \/ ToolInsert(1)

SpecRegistrySeq == Init /\ [][NextRegistrySeq]_vars


(***************************************************************************)
(* Startup seeding run by workers while others auto-register names: the    *)
(* store starts empty; each filter_by query of the seeding loop is one     *)
(* round trip, and the loop's rows are written by the one commit after it  *)
(***************************************************************************)
RECURSIVE AppendSeedTools(_, _)
AppendSeedTools(db, names) ==
  IF names = <<>> THEN db
  ELSE AppendSeedTools(
         [db EXCEPT !.toolDefs = Append(@, [tool_id |-> FreshId("tooldef_", db.nextId),
                                            name |-> Head(names),
                                            description |-> "seed"]),
                    !.nextId = @ + 1], Tail(names))

\* db.session.commit() of initialize_tool_definitions: one transaction; a
\* name committed by someone else meanwhile violates the unique constraint,
\* the exception leaves the function and none of its rows is written
CommitSeedTools(db, names) ==
  IF \E i \in 1..Len(names) : HasRow(db.toolDefs, "name", names[i])
    THEN [db |-> db, raised |-> TRUE]
    ELSE [db |-> AppendSeedTools(db, names), raised |-> FALSE]

RECURSIVE AppendSeedAgents(_, _)
AppendSeedAgents(db, names) ==
  IF names = <<>> THEN db
  ELSE AppendSeedAgents(
         [db EXCEPT !.agentDefs = Append(@, [agent_id |-> FreshId("agent_", db.nextId),
                                             name |-> Head(names),
                                             description |-> "seed"]),
                    !.nextId = @ + 1], Tail(names))

CommitSeedAgents(db, names) ==
  IF \E i \in 1..Len(names) : HasRow(db.agentDefs, "name", names[i])
    THEN [db |-> db, raised |-> TRUE]
    ELSE [db |-> AppendSeedAgents(db, names), raised |-> FALSE]

\* outcome of a finished seeding run, kept with the finished calls
SeedReturned(w, kind, raised) ==
  Append(returns, [worker |-> w, kind |-> kind, name |-> NULL, description |-> NULL,
                   id |-> IF raised THEN NULL ELSE "committed"])

InitSeeding ==
  /\ InitRoutingIdle
  /\ chatSessions = <<>>
  /\ chatHistory = <<>>
  /\ agentTraces = <<>>
  /\ toolUsage = <<>>
  /\ agentDefs = EmptyDb.agentDefs
  /\ toolDefs = EmptyDb.toolDefs
  /\ nextId = EmptyDb.nextId
  /\ InitRequests
  /\ InitWorkers
  /\ InitBank

SeedToolsBegin(w) ==
  /\ pc[w] = "idle"
  /\ calls < MaxRegCalls
  /\ pc' = [pc EXCEPT ![w] = "seed_tools"]
  /\ pending' = [pending EXCEPT ![w] = [i |-> 1, names |-> <<>>]]
  /\ calls' = calls + 1
  /\ UNCHANGED << bankVars, routingVars, storeVars, lastCall, callArgs, returns >>

\* existing = ToolDefinition.query.filter_by(name=...).first(); add if absent
SeedToolsQuery(w) ==
  /\ pc[w] = "seed_tools"
  /\ pending[w].i <= Len(SeedTools)
  /\ pending' = [pending EXCEPT ![w] =
                   [i |-> @.i + 1,
                    names |-> IF HasRow(toolDefs, "name", SeedTools[@.i])
                                THEN @.names
                                ELSE Append(@.names, SeedTools[@.i])]]
  /\ UNCHANGED << bankVars, routingVars, storeVars, requestVars, pc, callArgs, returns >>

SeedToolsCommit(w) ==
  /\ pc[w] = "seed_tools"
  /\ pending[w].i > Len(SeedTools)
  /\ \E r \in { CommitSeedTools(Db, pending[w].names) } :
       /\ SetDb(r.db)
       /\ returns' = SeedReturned(w, "seed_tools", r.raised)
  /\ pc' = [pc EXCEPT ![w] = "idle"]
  /\ pending' = [pending EXCEPT ![w] = NoPending]
  /\ UNCHANGED << bankVars, routingVars, requestVars, callArgs >>

SeedAgentsBegin(w) ==
  /\ pc[w] = "idle"
  /\ calls < MaxRegCalls
  /\ pc' = [pc EXCEPT ![w] = "seed_agents"]
  /\ pending' = [pending EXCEPT ![w] = [i |-> 1, names |-> <<>>]]
  /\ calls' = calls + 1
  /\ UNCHANGED << bankVars, routingVars, storeVars, lastCall, callArgs, returns >>

SeedAgentsQuery(w) ==
  /\ pc[w] = "seed_agents"
  /\ pending[w].i <= Len(SeedAgents)
  /\ pending' = [pending EXCEPT ![w] =
                   [i |-> @.i + 1,
                    names |-> IF HasRow(agentDefs, "name", SeedAgents[@.i])
                                THEN @.names
                                ELSE Append(@.names, SeedAgents[@.i])]]
  /\ UNCHANGED << bankVars, routingVars, storeVars, requestVars, pc, callArgs, returns >>

SeedAgentsCommit(w) ==
  /\ pc[w] = "seed_agents"
  /\ pending[w].i > Len(SeedAgents)
  /\ \E r \in { CommitSeedAgents(Db, pending[w].names) } :
       /\ SetDb(r.db)
       /\ returns' = SeedReturned(w, "seed_agents", r.raised)
  /\ pc' = [pc EXCEPT ![w] = "idle"]
  /\ pending' = [pending EXCEPT ![w] = NoPending]
  /\ UNCHANGED << bankVars, routingVars, requestVars, callArgs >>

NextSeeding ==
  \E w \in Workers :
    \/ AgentLookup(w)
    \/ AgentInsert(w)
    \/ ToolLookup(w)
    \/ ToolInsert(w)
    \/ SeedToolsBegin(w)
    \/ SeedToolsQuery(w)
    \/ SeedToolsCommit(w)
    \/ SeedAgentsBegin(w)
    \/ SeedAgentsQuery(w)
    \/ SeedAgentsCommit(w)

SpecSeeding == InitSeeding /\ [][NextSeeding]_vars


(***************************************************************************)
(* Specification of log_tool_usage called on its own                       *)
(***************************************************************************)
\* {"status":"error","message":"insufficient funds"}
ErrorPayload ==
  << "{","\"","s","t","a","t","u","s","\"",":","\"","e","r","r","o","r","\"",",",
     "\"","m","e","s","s","a","g","e","\"",":","\"","i","n","s","u","f","f","i","c","i","e","n","t",
     " ","f","u","n","d","s","\"","}" >>

ToolOutputs == { <<"o","k">>, <<"E","r","r","o","r",":"," ","n","o">>, ErrorPayload }

\* the merged tool_call_dict handed to log_tool_usage: the call id of the
\* request (None when the request had none), the tool name (None when the
\* request had none), and the tool_id add_tool_call_message resolved for it
\* (None when the registry answered None)
ToolInfo(tool_call_id, tool_id, tool_name, tool_output) ==
  [tool_call_id |-> tool_call_id, tool_id |-> tool_id, tool_name |-> tool_name,
   tool_input |-> "args", total_tokens |-> 10, tool_output |-> tool_output,
   status |-> "success"]

LogToolUsage ==
  /\ calls < MaxCalls
  /\ \E tool_call_id \in { "c1", "c2", NULL },
        tool_name \in { "get_user_accounts_tool", "brand_new_tool", NULL },
        resolved \in BOOLEAN, tool_output \in ToolOutputs, trace_id \in { "t1", "t2" } :
       \E info \in { ToolInfo(tool_call_id,
                              IF resolved THEN LookupTool(toolDefs, tool_name) ELSE NULL,
                              tool_name, tool_output) } :
         /\ SetDb(log_tool_usage(ensure_session_exists(Db, "s1", "u1"), "s1", info,
                                 trace_id, "account_agent"))
         /\ lastCall' = [op |-> "log_tool_usage", hops |-> <<>>, user_message |-> <<>>,
                         raised |-> FALSE, trace_id |-> trace_id, tool_info |-> info]
  /\ calls' = calls + 1
  /\ UNCHANGED << bankVars, routingVars, workerVars >>

NextToolUsage == LogToolUsage

SpecToolUsage == Init /\ [][NextToolUsage]_vars


(***************************************************************************)
(* Properties                                                              *)
(***************************************************************************)
\* a request of the given kind is served in this step
Serves(op) == calls' = calls + 1 /\ lastCall'.op = op

HumanAiCount(table) ==
  Cardinality({ i \in 1..Len(table) : table[i].message_type \in { "human", "ai" } })

IsPrefix(a, b) == Len(a) <= Len(b) /\ SubSeq(b, 1, Len(a)) = a

\* message ids carried by the events of a trace
EventIds(hops) ==
  UNION { { hops[i].messages[j].id : j \in 1..Len(hops[i].messages) }
          : i \in 1..Len(hops) }

StoredIds(table) == { table[i].message_id : i \in 1..Len(table) }

RowsWithId(table, id) == { i \in 1..Len(table) : table[i].message_id = id }

\* the turn "user message, one tool call, its result, final answer" as one hop
FourEventBatch ==
  << Hop("account_agent", 1, << EvHuman, EvCallOne, EvResult1, EvFinal >>) >>

\* C1: reconciling the same trace events a second time leaves the number of
\* persisted human and ai rows as it was after the first run.
C1_IdempotentReplay ==
  [][ (/\ Serves("reconcile")
       /\ lastCall.op = "reconcile"
       /\ lastCall'.hops = lastCall.hops)
      => HumanAiCount(chatHistory') = HumanAiCount(chatHistory) ]_vars

\* the four-event batch has been reconciled twice and two such rows exist
C1_Witness ==
  /\ calls = 2
  /\ lastCall.op = "reconcile"
  /\ lastCall.hops = FourEventBatch
  /\ Len(agentTraces) = 2
  /\ agentTraces[1].trace_id # agentTraces[2].trace_id
  /\ agentTraces[1].current_agent = "account_agent"
  /\ Len(chatHistory) = 4
  /\ \A i \in 1..4 : chatHistory[i].trace_id = agentTraces[1].trace_id
  /\ HumanAiCount(chatHistory) = 2

\* C3: every persisted tool_result row has exactly one tool_call row with its
\* tool_call_id in the same trace, persisted before it.
C3_ToolResultPaired ==
  \A i \in 1..Len(chatHistory) :
    chatHistory[i].message_type = "tool_result" =>
      LET calls_for == { j \in 1..Len(chatHistory) :
                           /\ chatHistory[j].message_type = "tool_call"
                           /\ chatHistory[j].tool_call_id = chatHistory[i].tool_call_id
                           /\ chatHistory[j].trace_id = chatHistory[i].trace_id }
      IN /\ Cardinality(calls_for) = 1
         /\ \A j \in calls_for : j < i

\* C7: serving a content-safety logging request leaves at least one
\* ChatHistory or AgentTrace row that carries the request's trace id.
C7_RejectionLeavesRecord ==
  [][ Serves("content_safety")
      => \/ \E i \in 1..Len(chatHistory') :
              chatHistory'[i].trace_id = lastCall'.trace_id
         \/ \E i \in 1..Len(agentTraces') :
              agentTraces'[i].trace_id = lastCall'.trace_id ]_vars

\* a rejection without a user message was logged: no human row, yet the
\* refusal and the hop are there
C7_Witness ==
  /\ lastCall.op = "content_safety"
  /\ lastCall.user_message = <<>>
  /\ ~lastCall.raised
  /\ \A i \in 1..Len(chatHistory) :
       chatHistory[i].trace_id = lastCall.trace_id
         => chatHistory[i].message_type # "human"
  /\ \E i \in 1..Len(chatHistory) :
       /\ chatHistory[i].trace_id = lastCall.trace_id
       /\ chatHistory[i].message_type = "ai"
  /\ \E i \in 1..Len(agentTraces) : agentTraces[i].trace_id = lastCall.trace_id

\* C8: a reconciliation whose events include a message id that is already
\* persisted returns without raising and leaves one row per message id.
C8_OverlapIsSafe ==
  [][ (/\ Serves("reconcile")
       /\ EventIds(lastCall'.hops) \cap StoredIds(chatHistory) # {})
      => /\ ~lastCall'.raised
         /\ \A id \in StoredIds(chatHistory') :
              Cardinality(RowsWithId(chatHistory', id)) = 1 ]_vars

\* C9: a reconciliation keeps every ChatHistory and AgentTrace row that
\* existed before it, in place and with the same fields; it only adds rows.
C9_AppendOnly ==
  [][ Serves("reconcile")
      => /\ IsPrefix(chatHistory, chatHistory')
         /\ IsPrefix(agentTraces, agentTraces') ]_vars

\* a reconciliation ran to the end on a store that already held the rows of
\* an earlier turn
C9_Witness ==
  /\ calls = 2
  /\ lastCall.op = "reconcile"
  /\ ~lastCall.raised
  /\ Len(chatHistory) >= 3
  /\ chatHistory[1].trace_id # lastCall.trace_id
  /\ chatHistory[Len(chatHistory)].trace_id = lastCall.trace_id
  /\ agentTraces[1].trace_id # lastCall.trace_id
  /\ agentTraces[Len(agentTraces)].trace_id = lastCall.trace_id


\* the two characters are the same letter, whatever their case
SameLetter(a, b) ==
  \/ a = b
  \/ \E i \in 1..Len(UpperChars) :
       {a, b} = { UpperChars[i], LowerChars[i] }

\* the text contains an account keyword, case ignored
MentionsAccountKeyword(text) ==
  \E k \in 1..Len(account_keywords) :
    \E off \in 0..(Len(text) - Len(account_keywords[k])) :
      \A j \in 1..Len(account_keywords[k]) :
        SameLetter(text[off + j], account_keywords[k][j])

\* content of the most recent message, empty for an empty history
MostRecent(messages) ==
  IF Len(messages) = 0 THEN <<>> ELSE messages[Len(messages)].content

CoordinatorRuns == node = "coordinator" /\ node' # "coordinator"

PinQuestion ==
  <<"H","o","w"," ","d","o"," ","I"," ","r","e","s","e","t"," ","m","y"," ","P","I","N","?">>

\* C4: when the most recent message mentions an account keyword in any
\* letter case, the coordinator routes to account_agent.
C4_KeywordRoutesToAccount ==
  [][ (CoordinatorRuns /\ MentionsAccountKeyword(MostRecent(state.messages)))
      => state'.current_agent = "account_agent" ]_vars

\* "BalANCE" after a message without any keyword went to account_agent
C4_Witness ==
  /\ visited = << "coordinator" >>
  /\ Len(state.messages) = 2
  /\ state.messages[1].content = PinQuestion
  /\ state.messages[2].content = <<"B","a","l","A","N","C","E">>
  /\ state.current_agent = "account_agent"
  /\ node = "account_agent"

\* C5: when the most recent message mentions no account keyword, or the
\* history is empty, the coordinator raises nothing and routes to
\* support_agent.
C5_NoKeywordRoutesToSupport ==
  [][ (CoordinatorRuns /\ ~MentionsAccountKeyword(MostRecent(state.messages)))
      => /\ state'.current_agent = "support_agent"
         /\ node' = "support_agent"
         /\ ~graphRaised' ]_vars

\* the PIN question after a balance question went to support_agent
C5_Witness ==
  /\ visited = << "coordinator" >>
  /\ Len(state.messages) = 2
  /\ MentionsAccountKeyword(state.messages[1].content)
  /\ state.messages[2].content = PinQuestion
  /\ state.current_agent = "support_agent"
  /\ node = "support_agent"
  /\ ~graphRaised

\* the routing of an empty history
C5_WitnessEmptyHistory ==
  /\ visited = << "coordinator" >>
  /\ state.messages = <<>>
  /\ state.current_agent = "support_agent"

\* C6: a run of the graph executes coordinator first, then the one specialist
\* named by current_agent, then halts; no node runs twice.
C6_SingleDispatch ==
  /\ Len(visited) <= 2
  /\ Len(visited) >= 1 => visited[1] = "coordinator"
  /\ Len(visited) = 2 =>
       /\ visited[2] \in { "account_agent", "support_agent" }
       /\ visited[2] = state.current_agent
       /\ node = "__end__"
  /\ node = "__end__" => Len(visited) = 2
  /\ Len(visited) < 2 => ~graphRaised

\* a run that ended after coordinator and support_agent
C6_Witness ==
  /\ node = "__end__"
  /\ visited = << "coordinator", "support_agent" >>
  /\ ~graphRaised
  /\ state.final_result # <<>>

\* a run in which the specialist raised: the graph halted without a retry
C6_WitnessRaise ==
  /\ node = "__end__"
  /\ visited = << "coordinator", "account_agent" >>
  /\ graphRaised

\* finished calls i < j of get_or_create for the same kind and name
SameName(i, j) ==
  /\ returns[i].kind = returns[j].kind
  /\ returns[i].name = returns[j].name

DefsNamed(kind, name) ==
  IF kind = "agent"
    THEN { i \in 1..Len(agentDefs) : agentDefs[i].name = name }
    ELSE { i \in 1..Len(toolDefs) : toolDefs[i].name = name }

\* C2: calls of get_or_create for the same name, racing or not, all return
\* the same non-null id, and exactly one record has that name.
C2_RaceSafeRegistration ==
  \A i, j \in 1..Len(returns) :
    (SameName(i, j) /\ returns[i].name # NULL) =>
      /\ returns[i].id # NULL
      /\ returns[i].id = returns[j].id
      /\ Cardinality(DefsNamed(returns[i].kind, returns[i].name)) = 1

\* C10: a call of get_or_create that begins after an earlier call for the
\* same name has returned gives the id the earlier call gave and adds no
\* definition record, whatever description it passes.
C10_SequentialIdempotence ==
  [][ (/\ Len(returns') = Len(returns) + 1
       /\ \E i \in 1..Len(returns) :
            /\ returns[i].kind = returns'[Len(returns')].kind
            /\ returns[i].name = returns'[Len(returns')].name)
      => /\ agentDefs' = agentDefs
         /\ toolDefs' = toolDefs
         /\ \A i \in 1..Len(returns) :
              (/\ returns[i].kind = returns'[Len(returns')].kind
               /\ returns[i].name = returns'[Len(returns')].name)
              => returns'[Len(returns')].id = returns[i].id ]_vars

\* "coordinator" was auto-registered and then asked for again with another
\* description: same id, one record
C10_Witness ==
  /\ Len(returns) >= 2
  /\ returns[1].kind = "agent"
  /\ returns[1].name = "coordinator"
  /\ returns[1].id # NULL
  /\ SameName(1, 2)
  /\ returns[2].description # returns[1].description
  /\ returns[2].id = returns[1].id
  /\ Cardinality(DefsNamed("agent", "coordinator")) = 1


\* no two rows of a definition table carry the same name
OneDefPerName(defs) ==
  \A i, j \in 1..Len(defs) : defs[i].name = defs[j].name => i = j

\* a seeding run reaches its commit in this step
SeedingCommits ==
  \E w \in Workers : pc[w] \in { "seed_tools", "seed_agents" } /\ pc'[w] = "idle"

\* C11: however seeding runs and auto-registrations of concurrent workers
\* interleave, each definition table holds at most one row per name, and the
\* commit of a seeding run leaves every row that existed before it as it was.
C11_RegistryNamesUnique ==
  [][ /\ OneDefPerName(agentDefs) /\ OneDefPerName(agentDefs')
      /\ OneDefPerName(toolDefs) /\ OneDefPerName(toolDefs')
      /\ SeedingCommits => /\ IsPrefix(agentDefs, agentDefs')
                           /\ IsPrefix(toolDefs, toolDefs') ]_vars

\* a seeding run lost the race against the auto-registration of
\* account_agent and wrote nothing; a second run then added the other two
C11_Witness ==
  /\ \E i, j \in 1..Len(returns) :
       /\ i < j
       /\ returns[i].kind = "seed_agents" /\ returns[i].id = NULL
       /\ returns[j].kind = "seed_agents" /\ returns[j].id = "committed"
  /\ Len(agentDefs) = 3
  /\ agentDefs[1].name = "account_agent"
  /\ agentDefs[1].description # "seed"
  /\ agentDefs[2].description = "seed"


\* C12: a tool_call row is persisted for every tool-call event, named or
\* not, and carries the tool_id of a registered ToolDefinition; the
\* reconciliation of a trace that holds a nameless call does not raise on
\* a store that has none of its messages.
C12_NamelessToolCallResolved ==
  [][ (/\ Serves("reconcile")
       /\ EventIds(lastCall'.hops) \cap StoredIds(chatHistory) = {}
       /\ "a5" \in EventIds(lastCall'.hops))
      => /\ ~lastCall'.raised
         /\ \E i \in 1..Len(chatHistory') :
              /\ chatHistory'[i].message_id = "a5"
              /\ chatHistory'[i].message_type = "tool_call"
              /\ chatHistory'[i].tool_id # NULL
              /\ HasRow(toolDefs', "tool_id", chatHistory'[i].tool_id) ]_vars


OneRowPerCallId(table) ==
  \A i, j \in 1..Len(table) : table[i].tool_call_id = table[j].tool_call_id => i = j

\* C13: tool_usage holds at most one row per tool_call_id; log_tool_usage
\* for a call id that has a row rewrites that row with the call's result
\* fields and adds none, and for a call id that has no row adds exactly one
\* row, with that call id.
C13_ToolUsageUpsert ==
  [][ (Serves("log_tool_usage") /\ lastCall'.tool_info.tool_call_id # NULL)
      => LET info == lastCall'.tool_info
             id == info.tool_call_id
         IN /\ OneRowPerCallId(toolUsage')
            /\ HasRow(toolUsage, "tool_call_id", id)
                 => /\ Len(toolUsage') = Len(toolUsage)
                    /\ FirstRow(toolUsage', "tool_call_id", id).tool_output
                         = info.tool_output
            /\ ~HasRow(toolUsage, "tool_call_id", id)
                 => /\ Len(toolUsage') = Len(toolUsage) + 1
                    /\ SubSeq(toolUsage', 1, Len(toolUsage)) = toolUsage
                    /\ toolUsage'[Len(toolUsage')].tool_call_id = id ]_vars


\* the text contains the word, letter case ignored
ContainsIgnoringCase(word, text) ==
  \E off \in 0..(Len(text) - Len(word)) :
    \A j \in 1..Len(word) : SameLetter(text[off + j], word[j])

SaysError(text) == ContainsIgnoringCase(<<"e","r","r","o","r">>, text)

\* C14: every ToolUsage row has status "Errored" if its tool output contains
\* "error" in any letter case and "Healthy" if not, and every persisted tool
\* result whose output contains "error" has a ToolUsage row for its own
\* call id with status "Errored".
C14_StatusDerivation ==
  /\ \A i \in 1..Len(toolUsage) :
       toolUsage[i].status =
         IF SaysError(toolUsage[i].tool_output) THEN "Errored" ELSE "Healthy"
  /\ \A i \in 1..Len(chatHistory) :
       (/\ chatHistory[i].message_type = "tool_result"
        /\ SaysError(chatHistory[i].tool_output))
       => \E j \in 1..Len(toolUsage) :
            /\ toolUsage[j].tool_call_id = chatHistory[i].tool_call_id
            /\ toolUsage[j].status = "Errored"


(***************************************************************************)
(* One chat turn: POST /api/chatbot (banking_app.py)                       *)
(***************************************************************************)
\* request bodies: no message at all, or one user message (possibly empty)
ChatRequests == { <<>> } \cup { << [content |-> c] >> : c \in UserMessages }

\* the graph runs the coordinator and then one specialist
TurnTraces == { t \in TraceInputs : Len(t) = 2 }

\* the text of the last message of the trace: the specialist's final answer
FinalText(trace_events) ==
  LET last == trace_events[Len(trace_events)].messages
  IN last[Len(last)].content

\* what execute_trace does: it returns the events of the graph run and the
\* final text, or lets the exception of a node leave it (the provider's
\* content-policy rejection, or any other failure)
GraphOutcomes ==
  { [raised |-> NULL, trace_events |-> t, result |-> FinalText(t)] : t \in TurnTraces }
  \cup { [raised |-> e, trace_events |-> <<>>, result |-> <<>>] : e \in { "content_policy", "graph_failure" } }

NoResDict == handle_content_safety_error([nextId |-> 0], NULL, NULL, <<>>, NULL)

\* chatbot preparing the payload only after the trace request has gone out:
\* a failing preparation then adds the fallback request to the first one
chatbot_preparing_late(db, configured, messages, graph, prep_raises, handler_raises, agent_name) ==
  LET user_message == messages[Len(messages)].content
      failure == IF graph.raised # NULL THEN graph.raised
                 ELSE IF prep_raises THEN "prep_failure" ELSE NULL
      res_dict == handle_content_safety_error(db, "s1", "u1", user_message, agent_name)
      base == [op |-> "chatbot", hops |-> <<>>, user_message |-> <<>>,
               failure |-> NULL, endpoint |-> NULL, res_dict |-> NoResDict,
               requested |-> <<>>,
               status |-> 200, response |-> <<>>, error |-> NULL, outer |-> NULL]
  IN IF ~configured
       THEN [base EXCEPT !.status = 503, !.error = "Azure OpenAI client is not configured."]
     ELSE IF messages = <<>>
       THEN [base EXCEPT !.status = 500, !.error = "str(IndexError)", !.outer = "IndexError"]
     ELSE IF failure = NULL
       THEN [base EXCEPT !.user_message = user_message, !.hops = graph.trace_events,
                         !.endpoint = "chat/log-multi-agent-trace",
                         !.requested = << "chat/log-multi-agent-trace" >>,
                         !.response = graph.result]
     ELSE IF graph.raised = NULL /\ ~handler_raises
       THEN [base EXCEPT !.user_message = user_message, !.failure = failure,
                         !.endpoint = "chat/log-content-safety-violation",
                         !.requested = << "chat/log-multi-agent-trace",
                                          "chat/log-content-safety-violation" >>,
                         !.res_dict = res_dict,
                         !.response = res_dict.message.content]
     ELSE IF handler_raises
       THEN [base EXCEPT !.user_message = user_message, !.failure = failure,
                         !.status = 500, !.error = "str(handler_failure)",
                         !.outer = "handler_failure"]
     ELSE [base EXCEPT !.user_message = user_message, !.failure = failure,
                       !.endpoint = "chat/log-content-safety-violation",
                       !.requested = << "chat/log-content-safety-violation" >>,
                       !.res_dict = res_dict,
                       !.response = res_dict.message.content]

\* the handler up to its logging request: the response it will send and the
\* logging request it makes on the way
chatbot(db, configured, messages, graph, prep_raises, handler_raises, agent_name) ==
  LET user_message == messages[Len(messages)].content
      failure == IF graph.raised # NULL THEN graph.raised
                 ELSE IF prep_raises THEN "prep_failure" ELSE NULL
      res_dict == handle_content_safety_error(db, "s1", "u1", user_message, agent_name)
      base == [op |-> "chatbot", hops |-> <<>>, user_message |-> <<>>,
               failure |-> NULL, endpoint |-> NULL, res_dict |-> NoResDict,
               requested |-> <<>>,
               status |-> 200, response |-> <<>>, error |-> NULL, outer |-> NULL]
  IN IF ~configured
       THEN [base EXCEPT !.status = 503, !.error = "Azure OpenAI client is not configured."]
     ELSE IF messages = <<>>
       THEN [base EXCEPT !.status = 500, !.error = "str(IndexError)", !.outer = "IndexError"]
     ELSE IF failure = NULL
       THEN [base EXCEPT !.user_message = user_message, !.hops = graph.trace_events,
                         !.endpoint = "chat/log-multi-agent-trace",
                         !.requested = << "chat/log-multi-agent-trace" >>,
                         !.response = graph.result]
     ELSE IF handler_raises
       THEN [base EXCEPT !.user_message = user_message, !.failure = failure,
                         !.status = 500, !.error = "str(handler_failure)",
                         !.outer = "handler_failure"]
     ELSE [base EXCEPT !.user_message = user_message, !.failure = failure,
                       !.endpoint = "chat/log-content-safety-violation",
                       !.requested = << "chat/log-content-safety-violation" >>,
                       !.res_dict = res_dict,
                       !.response = res_dict.message.content]

\* POST chat/log-multi-agent-trace as the service handles it: an exception of
\* the manager ends in the handler, which answers with status 500
log_multi_agent_trace(db, hops) ==
  add_multi_agent_trace(ensure_session_exists(db, "s1", "u1"), "s1", "u1", hops)

\* the logging request of a turn: whatever happens in the service or on the
\* way to it, the caller gets a value back and no exception
call_analytics_service(db, endpoint, hops, res_dict, service_up) ==
  IF ~service_up THEN [db |-> db, raised |-> FALSE]
  ELSE IF endpoint = "chat/log-multi-agent-trace" THEN log_multi_agent_trace(db, hops)
  ELSE log_content_safety_violation(db, res_dict)

Chatbot ==
  /\ calls < MaxCalls
  /\ \E configured \in BOOLEAN, messages \in ChatRequests, graph \in GraphOutcomes :
     \E prep_raises \in BOOLEAN, handler_raises \in BOOLEAN, service_up \in BOOLEAN :
     \E agent_name \in RefusingAgents :
       \E turn \in { chatbot(Db, configured, messages, graph, prep_raises,
                             handler_raises, agent_name) } :
       \E r \in { IF turn.endpoint = NULL THEN [db |-> Db, raised |-> FALSE]
                  ELSE call_analytics_service(Db, turn.endpoint, turn.hops,
                                              turn.res_dict, service_up) } :
          /\ SetDb(r.db)
          /\ lastCall' = [op |-> "chatbot", hops |-> turn.hops,
                          user_message |-> turn.user_message, raised |-> r.raised,
                          trace_id |-> IF turn.endpoint = NULL \/ ~service_up THEN NULL
                                       ELSE IF turn.endpoint = "chat/log-multi-agent-trace"
                                         THEN r.trace_id
                                       ELSE turn.res_dict.trace_id,
                          failure |-> turn.failure, endpoint |-> turn.endpoint,
                          requests |-> Len(turn.requested),
                          status |-> turn.status, response |-> turn.response,
                          error |-> turn.error, outer |-> turn.outer]
  /\ calls' = calls + 1
  /\ UNCHANGED << bankVars, routingVars, workerVars >>

NextTurn == Chatbot

SpecTurn == Init /\ [][NextTurn]_vars

\* C15: a turn whose graph run and preparation succeeded answers with the
\* specialist's final text, a turn rejected by the content policy answers
\* with the refusal text, and no turn answers with the message of a raised
\* exception
C15_UserVisibleOutcome ==
  lastCall.op = "chatbot" =>
    /\ lastCall.outer = NULL
    /\ (lastCall.failure = "content_policy" =>
          lastCall.status = 200 /\ lastCall.response = NoResDict.message.content)
    /\ (lastCall.failure = NULL /\ lastCall.endpoint # NULL =>
          lastCall.status = 200 /\ lastCall.response = FinalText(lastCall.hops))

\* C16: a store failure raised while a turn's trace is reconciled reaches the
\* outer handler of the turn, and the trace is sent for reconciliation once
C16_StoreFailurePropagates ==
  (lastCall.op = "chatbot" /\ lastCall.endpoint = "chat/log-multi-agent-trace"
     /\ lastCall.raised) =>
    (lastCall.outer # NULL /\ lastCall.requests = 1)


\* the rows of a table that belong to one trace, in insertion order
RowsOfTrace(table, trace_id) == SelectSeq(table, LAMBDA row : row.trace_id = trace_id)

\* C17: after a policy rejection is logged, its trace has exactly one
\* AgentTrace row, from 'system' to the responding agent, at step 1, marked
\* unsuccessful and carrying an error message
C17_ContentSafetyHopRecord ==
  (lastCall.op = "content_safety" /\ ~lastCall.raised) =>
    LET rows == RowsOfTrace(agentTraces, lastCall.trace_id)
    IN /\ Len(rows) = 1
       /\ rows[1].from_agent = "system"
       /\ rows[1].current_agent = lastCall.agent_name
       /\ rows[1].step_order = 1
       /\ rows[1].success = FALSE
       /\ rows[1].error_message # NULL


\* positions, among the chat_history rows of a trace, of one message type
PositionsOfType(rows, message_type) ==
  { i \in 1..Len(rows) : rows[i].message_type = message_type }

\* C18: after a policy rejection is logged, its trace has a 'human' row with
\* the user's message exactly when that message is not empty, and the row
\* comes before the 'ai' refusal row of the trace
C18_ContentSafetyHumanRecord ==
  (lastCall.op = "content_safety" /\ ~lastCall.raised) =>
    LET rows == RowsOfTrace(chatHistory, lastCall.trace_id)
        humans == PositionsOfType(rows, "human")
        ais == PositionsOfType(rows, "ai")
    IN /\ (humans # {}) <=> (lastCall.user_message # <<>>)
       /\ Cardinality(humans) <= 1
       /\ Cardinality(ais) = 1
       /\ \A i \in humans :
            /\ rows[i].content = lastCall.user_message
            /\ \A j \in ais : i < j

\* a rejection of a non-empty message was logged: human row, then refusal
C18_Witness ==
  /\ lastCall.op = "content_safety"
  /\ ~lastCall.raised
  /\ lastCall.user_message # <<>>
  /\ LET rows == RowsOfTrace(chatHistory, lastCall.trace_id)
     IN /\ Len(rows) = 2
        /\ rows[1].message_type = "human"
        /\ rows[1].content = lastCall.user_message
        /\ rows[2].message_type = "ai"


\* every message of a hop has its chat_history row in the trace
HopMessagesLogged(hop, trace_id) ==
  \A k \in 1..Len(hop.messages) :
    \E j \in 1..Len(chatHistory) :
      /\ chatHistory[j].trace_id = trace_id
      /\ chatHistory[j].message_id = hop.messages[k].id

\* C19: after a reconciliation, failed or not, a hop whose AgentTrace row
\* is in the store has the rows of all its messages in the store as well
C19_HopAtomicity ==
  lastCall.op = "reconcile" =>
    \A i \in 1..Len(lastCall.hops) :
      (\E j \in 1..Len(agentTraces) :
          /\ agentTraces[j].trace_id = lastCall.trace_id
          /\ agentTraces[j].step_order = i)
        => HopMessagesLogged(lastCall.hops[i], lastCall.trace_id)


\* the names in agent_names_used of a session, none if it has no row yet
NamesUsed(sessions, session_id) ==
  IF HasRow(sessions, "session_id", session_id)
    THEN LET names == FirstRow(sessions, "session_id", session_id).agent_names_used
         IN { names[i] : i \in 1..Len(names) }
    ELSE {}

\* the hops a reconciliation went through completely: all of them, or, when
\* it raised, those before the last hop that got its AgentTrace row
HopsCompleted(call, traces) ==
  IF call.raised
    THEN 1..(Len(RowsOfTrace(traces, call.trace_id)) - 1)
    ELSE 1..Len(call.hops)

\* C20: every session lists each agent name once and counts exactly the
\* names it lists, and a reconciliation adds to the list the agent names of
\* the hops it went through and nothing else
C20_SessionStatistics ==
  /\ [](\A k \in 1..Len(chatSessions) :
          LET names == chatSessions[k].agent_names_used
          IN /\ \A i, j \in 1..Len(names) : names[i] = names[j] => i = j
             /\ chatSessions[k].total_agents_used = Len(names))
  /\ [][lastCall'.op = "reconcile" /\ calls' = calls + 1 =>
          NamesUsed(chatSessions', "s1") =
            NamesUsed(chatSessions, "s1") \cup
              { lastCall'.hops[i].agent : i \in HopsCompleted(lastCall', agentTraces') }]_vars

\* two reconciliations with different specialists: the coordinator seen
\* twice is listed once, three names in all
C20_Witness ==
  /\ lastCall.op = "reconcile"
  /\ calls = 2
  /\ Len(lastCall.hops) = 2
  /\ NamesUsed(chatSessions, "s1") = { "coordinator", "account_agent", "support_agent" }
  /\ FirstRow(chatSessions, "session_id", "s1").total_agents_used = 3


(***************************************************************************)
(* Session lifecycle: managers, trace logging and the two purges           *)
(***************************************************************************)
SessionIds == { "s1", "s2" }
UserIds == { "u1", "u2" }

\* turns without tool calls, as the graph cuts them into hops
SessionTraces ==
  { << Hop("coordinator", 0, << c[1] >>), Hop("support_agent", 1, c) >> :
      c \in { << EvHuman, EvFinal >>, << EvHumanNext, EvFinalNext >> } }

\* rows of a table that do not belong to the session
WithoutSession(table, session_id) ==
  SelectSeq(table, LAMBDA row : row.session_id # session_id)

\* the deletes of clear_chat_history, committed together
clear_chat_history(db) ==
  [db EXCEPT !.chatHistory = <<>>, !.toolUsage = <<>>, !.agentTraces = <<>>]

\* the deletes without their filter on the session
clear_session_data_unfiltered(db, session_id) ==
  [db EXCEPT !.chatHistory = <<>>, !.toolUsage = <<>>, !.agentTraces = <<>>,
             !.chatSessions = <<>>]

\* the deletes of clear_session_data, committed together
clear_session_data(db, session_id) ==
  [db EXCEPT !.chatHistory = WithoutSession(@, session_id),
             !.toolUsage = WithoutSession(@, session_id),
             !.agentTraces = WithoutSession(@, session_id),
             !.chatSessions = WithoutSession(@, session_id)]

LifecycleCall(op, session_id, user_id, raised, trace_id) ==
  [op |-> op, hops |-> <<>>, user_message |-> <<>>, raised |-> raised,
   trace_id |-> trace_id, session_id |-> session_id, user_id |-> user_id]

\* ChatHistoryManager(session_id, user_id)
ConstructManager ==
  /\ calls < MaxCalls
  /\ \E session_id \in SessionIds, user_id \in UserIds :
       /\ SetDb(ensure_session_exists(Db, session_id, user_id))
       /\ lastCall' = LifecycleCall("construct", session_id, user_id, FALSE, NULL)
  /\ calls' = calls + 1
  /\ UNCHANGED << bankVars, routingVars, workerVars >>

\* a manager for the session, then the trace
LogSessionTrace ==
  /\ calls < MaxCalls
  /\ \E session_id \in SessionIds, user_id \in UserIds, hops \in SessionTraces :
       \E r \in { add_multi_agent_trace(ensure_session_exists(Db, session_id, user_id),
                                        session_id, user_id, hops) } :
          /\ SetDb(r.db)
          /\ lastCall' = [LifecycleCall("reconcile", session_id, user_id, r.raised,
                                        r.trace_id) EXCEPT !.hops = hops]
  /\ calls' = calls + 1
  /\ UNCHANGED << bankVars, routingVars, workerVars >>

\* DELETE of all chat history: the deletes commit, or the store rejects one
\* and all are rolled back
ClearChatHistory ==
  /\ calls < MaxCalls
  /\ \E rejected \in BOOLEAN :
       /\ SetDb(IF rejected THEN Db ELSE clear_chat_history(Db))
       /\ lastCall' = LifecycleCall("clear_chat_history", NULL, NULL, rejected, NULL)
  /\ calls' = calls + 1
  /\ UNCHANGED << bankVars, routingVars, workerVars >>

\* DELETE of one session
ClearSessionData ==
  /\ calls < MaxCalls
  /\ \E session_id \in SessionIds, rejected \in BOOLEAN :
       /\ SetDb(IF rejected THEN Db ELSE clear_session_data(Db, session_id))
       /\ lastCall' = LifecycleCall("clear_session_data", session_id, NULL, rejected, NULL)
  /\ calls' = calls + 1
  /\ UNCHANGED << bankVars, routingVars, workerVars >>

NextLifecycle ==
  \/ ConstructManager
  \/ LogSessionTrace
  \/ ClearChatHistory
  \/ ClearSessionData

SpecLifecycle == Init /\ [][NextLifecycle]_vars

\* C21: constructing a manager adds the session's row when there is none
\* and otherwise leaves the table as it is, and a session row disappears
\* only in a clear_session_data of that session
C21_SessionLifecycle ==
  [][/\ (lastCall'.op = "construct" /\ calls' = calls + 1) =>
          IF HasRow(chatSessions, "session_id", lastCall'.session_id)
            THEN chatSessions' = chatSessions
            ELSE /\ Len(chatSessions') = Len(chatSessions) + 1
                 /\ SubSeq(chatSessions', 1, Len(chatSessions)) = chatSessions
                 /\ chatSessions'[Len(chatSessions')].session_id = lastCall'.session_id
                 /\ chatSessions'[Len(chatSessions')].user_id = lastCall'.user_id
     /\ \A session_id \in SessionIds :
          (HasRow(chatSessions, "session_id", session_id)
             /\ ~HasRow(chatSessions', "session_id", session_id))
            => (lastCall'.op = "clear_session_data"
                  /\ lastCall'.session_id = session_id)]_vars

\* a manager was built by another user for a session that already had
\* statistics, and the row still names its first user
C21_Witness ==
  /\ lastCall.op = "construct"
  /\ HasRow(chatSessions, "session_id", lastCall.session_id)
  /\ LET session == FirstRow(chatSessions, "session_id", lastCall.session_id)
     IN /\ session.user_id # lastCall.user_id
        /\ session.total_agents_used = 2


\* the messages of a trace that are subject to the seen-id check
Deduplicated(msg) ==
  \/ msg.cls = "HumanMessage"
  \/ msg.cls = "AIMessage" /\ msg.finish_reason # "tool_calls"

\* the hops of a trace whose batch holds a message with this id
HopsHolding(hops, id) ==
  { i \in 1..Len(hops) : \E k \in 1..Len(hops[i].messages) : hops[i].messages[k].id = id }

\* the first of a non-empty set of hop indices
FirstOf(S) == CHOOSE i \in S : \A j \in S : i <= j

\* the ids of all messages of a trace
IdsOf(hops) ==
  UNION { { hops[i].messages[k].id : k \in 1..Len(hops[i].messages) } : i \in 1..Len(hops) }

\* C22: a reconciliation of a trace none of whose message ids is in the
\* store does not fail on a Human or final AI message repeated in several
\* hops: it writes one row for it, and a final AI row is tagged with the
\* first hop that holds the message
C22_DedupWholeTrace ==
  [][(lastCall'.op = "reconcile" /\ calls' = calls + 1
        /\ \A j \in 1..Len(chatHistory) : chatHistory[j].message_id \notin IdsOf(lastCall'.hops))
      => /\ ~lastCall'.raised
         /\ \A i \in 1..Len(lastCall'.hops) : \A k \in 1..Len(lastCall'.hops[i].messages) :
              LET msg == lastCall'.hops[i].messages[k]
                  rows == SelectSeq(chatHistory', LAMBDA row : row.message_id = msg.id)
                  first == FirstOf(HopsHolding(lastCall'.hops, msg.id))
              IN Deduplicated(msg) =>
                   /\ Len(rows) = 1
                   /\ rows[1].trace_id = lastCall'.trace_id
                   /\ msg.cls = "AIMessage" =>
                        /\ rows[1].routing_step = first
                        /\ rows[1].agent_name = lastCall'.hops[first].agent]_vars

\* a trace whose final AI message is in the batches of two hops was
\* reconciled, and the message has its row from the first of them
C22_Witness ==
  /\ lastCall.op = "reconcile"
  /\ ~lastCall.raised
  /\ \E i \in 1..Len(lastCall.hops) : \E k \in 1..Len(lastCall.hops[i].messages) :
       LET msg == lastCall.hops[i].messages[k]
       IN /\ msg.cls = "AIMessage"
          /\ Cardinality(HopsHolding(lastCall.hops, msg.id)) = 2
          /\ Cardinality(HopsHolding(lastCall.hops, EvHuman.id)) = 3
          /\ \E j \in 1..Len(chatHistory) :
               /\ chatHistory[j].message_id = msg.id
               /\ chatHistory[j].trace_id = lastCall.trace_id
               /\ chatHistory[j].routing_step = 2


\* C23: a reconciliation that went through its n hops leaves n AgentTrace
\* rows for the trace; the i-th has step_order i, the agent of hop i as
\* current_agent and the agent of hop i-1, or 'system' for the first, as
\* from_agent
C23_HopRecords ==
  (lastCall.op = "reconcile" /\ ~lastCall.raised) =>
    LET rows == RowsOfTrace(agentTraces, lastCall.trace_id)
    IN /\ Len(rows) = Len(lastCall.hops)
       /\ \A i \in 1..Len(rows) :
            /\ rows[i].step_order = i
            /\ rows[i].current_agent = lastCall.hops[i].agent
            /\ rows[i].from_agent = IF i = 1 THEN "system" ELSE lastCall.hops[i - 1].agent


\* all messages of a trace
MessagesOf(hops) ==
  UNION { { hops[i].messages[k] : k \in 1..Len(hops[i].messages) } : i \in 1..Len(hops) }

\* C24: after a reconciliation every ToolUsage row of the trace carries the
\* tool name and input of the requested call that has the row's call id,
\* and the output of the tool result that has the row's call id
C24_ToolUsageMergeByCallId ==
  (lastCall.op = "reconcile" /\ ~lastCall.raised) =>
    \A j \in 1..Len(toolUsage) :
      toolUsage[j].trace_id = lastCall.trace_id =>
        /\ \E msg \in MessagesOf(lastCall.hops) : \E k \in 1..Len(msg.tool_calls) :
             /\ msg.tool_calls[k].id = toolUsage[j].tool_call_id
             /\ msg.tool_calls[k].name = toolUsage[j].tool_name
             /\ msg.tool_calls[k].arguments = toolUsage[j].tool_input
        /\ \E msg \in MessagesOf(lastCall.hops) :
             /\ msg.cls = "ToolMessage"
             /\ msg.tool_call_id = toolUsage[j].tool_call_id
             /\ msg.content = toolUsage[j].tool_output


\* the record type the claim assigns to an event
RecordTypeOf(msg) ==
  IF msg.cls = "HumanMessage" THEN "human"
  ELSE IF msg.cls = "ToolMessage" THEN "tool_result"
  ELSE IF msg.finish_reason = "tool_calls" THEN "tool_call"
  ELSE "ai"

\* the chat_history rows a trace has for one message id
RowsOfMessage(table, trace_id, id) ==
  SelectSeq(table, LAMBDA row : row.trace_id = trace_id /\ row.message_id = id)

\* C25: after a reconciliation every event of the trace has one row, of
\* the type its class and finish reason decide; an ai row carries the name
\* of the agent of the first hop that holds the event
C25_VariantDispatch ==
  (lastCall.op = "reconcile" /\ ~lastCall.raised) =>
    \A msg \in MessagesOf(lastCall.hops) :
      LET rows == RowsOfMessage(chatHistory, lastCall.trace_id, msg.id)
          first == FirstOf(HopsHolding(lastCall.hops, msg.id))
      IN /\ Len(rows) = 1
         /\ rows[1].message_type = RecordTypeOf(msg)
         /\ rows[1].message_type = "ai" => rows[1].agent_name = lastCall.hops[first].agent

\* the session holds the rows of a tool round and the ai row of an AI event
\* that had no finish reason
C25_Witness ==
  /\ lastCall.op = "reconcile"
  /\ ~lastCall.raised
  /\ \E j \in 1..Len(chatHistory) :
       /\ chatHistory[j].message_id = EvFinalNext.id
       /\ chatHistory[j].message_type = "ai"
       /\ chatHistory[j].finish_reason = NULL
       /\ chatHistory[j].agent_name \in Specialists
  /\ \E j \in 1..Len(chatHistory) : chatHistory[j].message_type = "tool_call"
  /\ \E j \in 1..Len(chatHistory) : chatHistory[j].message_type = "tool_result"


\* the tool_call rows of a trace
ToolCallRows(table, trace_id) ==
  SelectSeq(table, LAMBDA row : row.trace_id = trace_id /\ row.message_type = "tool_call")

\* C26: after a reconciliation an AI event that requested tool calls has
\* one tool_call row, with the call id, tool name and arguments of the
\* first request, and no tool_call row of the trace carries the call id of
\* a later request
C26_FirstCallOnly ==
  (lastCall.op = "reconcile" /\ ~lastCall.raised) =>
    \A msg \in MessagesOf(lastCall.hops) :
      (msg.cls = "AIMessage" /\ msg.finish_reason = "tool_calls" /\ Len(msg.tool_calls) >= 1) =>
        LET rows == ToolCallRows(chatHistory, lastCall.trace_id)
            own == SelectSeq(rows, LAMBDA row : row.message_id = msg.id)
        IN /\ Len(own) = 1
           /\ own[1].tool_call_id = msg.tool_calls[1].id
           /\ own[1].tool_name = msg.tool_calls[1].name
           /\ own[1].tool_input = msg.tool_calls[1].arguments
           /\ \A k \in 2..Len(msg.tool_calls) : \A j \in 1..Len(rows) :
                rows[j].tool_call_id # msg.tool_calls[k].id

\* an AI event with two requests was reconciled: its row is that of the
\* first request
C26_Witness ==
  /\ lastCall.op = "reconcile"
  /\ ~lastCall.raised
  /\ EvCallTwo \in MessagesOf(lastCall.hops)
  /\ LET rows == ToolCallRows(chatHistory, lastCall.trace_id)
     IN /\ \E j \in 1..Len(rows) : rows[j].tool_call_id = EvCallTwo.tool_calls[1].id
        /\ \A j \in 1..Len(rows) : rows[j].tool_call_id # EvCallTwo.tool_calls[2].id


\* C27: after a reconciliation every chat_history row of the trace has as
\* routing_step the index of the first hop whose batch holds its message
C27_RoutingStepTagging ==
  (lastCall.op = "reconcile" /\ ~lastCall.raised) =>
    \A j \in 1..Len(chatHistory) :
      chatHistory[j].trace_id = lastCall.trace_id =>
        chatHistory[j].routing_step =
          FirstOf(HopsHolding(lastCall.hops, chatHistory[j].message_id))


(***************************************************************************)
(* update_session_stats of concurrent reconciliations of one session       *)
(***************************************************************************)
StatsNames == { "coordinator", "account_agent", "support_agent" }

\* the session's statistics as the query of update_session_stats loads them
ReadSessionStats(db, session_id) ==
  LET session == FirstRow(db.chatSessions, "session_id", session_id)
  IN [i |-> session.total_agents_used, names |-> session.agent_names_used]

\* the commit of update_session_stats: when the name was not in the list
\* that was loaded, the list and the counter computed from what was loaded
\* are written to the row
WriteSessionStats(db, session_id, loaded, agent_name) ==
  IF \E i \in 1..Len(loaded.names) : loaded.names[i] = agent_name THEN db
  ELSE [db EXCEPT !.chatSessions =
          UpdateFirst(@, "session_id", session_id,
            [FirstRow(@, "session_id", session_id) EXCEPT
               !.agent_names_used = Append(loaded.names, agent_name),
               !.total_agents_used = IF loaded.i # 0 THEN loaded.i + 1 ELSE 1])]

\* session s1 exists and an earlier turn has recorded the coordinator
InitStats ==
  /\ InitRoutingIdle
  /\ chatSessions = update_session_stats(ensure_session_exists(SeededDb, "s1", "u1"),
                                         "s1", "coordinator").chatSessions
  /\ chatHistory = SeededDb.chatHistory
  /\ agentTraces = SeededDb.agentTraces
  /\ toolUsage = SeededDb.toolUsage
  /\ agentDefs = SeededDb.agentDefs
  /\ toolDefs = SeededDb.toolDefs
  /\ nextId = SeededDb.nextId
  /\ InitRequests
  /\ InitWorkers
  /\ InitBank

\* update_session_stats up to the membership test
StatsRead(w) ==
  /\ pc[w] = "idle"
  /\ calls < MaxRegCalls
  /\ \E agent_name \in StatsNames :
       callArgs' = [callArgs EXCEPT ![w] = [kind |-> "stats", name |-> agent_name,
                                            description |-> NULL]]
  /\ pending' = [pending EXCEPT ![w] = ReadSessionStats(Db, "s1")]
  /\ pc' = [pc EXCEPT ![w] = "stats_commit"]
  /\ calls' = calls + 1
  /\ UNCHANGED << bankVars, routingVars, storeVars, lastCall, returns >>

\* update_session_stats from the membership test to the commit
StatsCommit(w) ==
  /\ pc[w] = "stats_commit"
  /\ SetDb(WriteSessionStats(Db, "s1", pending[w], callArgs[w].name))
  /\ returns' = Append(returns, [worker |-> w, kind |-> "stats", name |-> callArgs[w].name,
                                 description |-> NULL, id |-> "committed"])
  /\ pc' = [pc EXCEPT ![w] = "idle"]
  /\ pending' = [pending EXCEPT ![w] = NoPending]
  /\ UNCHANGED << bankVars, routingVars, requestVars, callArgs >>

NextStats == \E w \in Workers : StatsRead(w) \/ StatsCommit(w)

SpecStats == InitStats /\ [][NextStats]_vars

\* C28: when no update of the statistics is in progress, the session lists
\* the coordinator recorded before and every agent name an update was
\* committed for, and counts exactly the distinct names it lists
C28_CumulativeAgentsConcurrent ==
  (\A w \in Workers : pc[w] = "idle") =>
    LET session == FirstRow(chatSessions, "session_id", "s1")
    IN /\ "coordinator" \in NamesUsed(chatSessions, "s1")
       /\ \A k \in 1..Len(returns) :
            returns[k].kind = "stats" => returns[k].name \in NamesUsed(chatSessions, "s1")
       /\ session.total_agents_used = Cardinality(NamesUsed(chatSessions, "s1"))


(***************************************************************************)
(* _ensure_session_exists of concurrent requests                           *)
(***************************************************************************)
\* db.session.add(session); db.session.commit() on chat_sessions, whose
\* primary key is session_id: a duplicate key raises out of the constructor
InsertChatSession(db, session_id, user_id) ==
  IF HasRow(db.chatSessions, "session_id", session_id)
    THEN [db |-> db, raised |-> TRUE]
    ELSE [db |-> [db EXCEPT !.chatSessions =
                    Append(@, [session_id |-> session_id, user_id |-> user_id,
                               title |-> "New Session", total_agents_used |-> 0,
                               agent_names_used |-> <<>>])],
          raised |-> FALSE]

SessionReturned(w, session_id, outcome) ==
  Append(returns, [worker |-> w, kind |-> "session", name |-> session_id,
                   description |-> NULL, id |-> outcome])

\* _ensure_session_exists up to `if not session`
EnsureQuery(w) ==
  /\ pc[w] = "idle"
  /\ calls < MaxRegCalls
  /\ \E session_id \in SessionIds, user_id \in UserIds :
       /\ callArgs' = [callArgs EXCEPT ![w] = [kind |-> "session", name |-> session_id,
                                               description |-> user_id]]
       /\ IF HasRow(chatSessions, "session_id", session_id)
            THEN /\ returns' = SessionReturned(w, session_id, "found")
                 /\ pc' = pc
            ELSE /\ returns' = returns
                 /\ pc' = [pc EXCEPT ![w] = "insert_session"]
  /\ calls' = calls + 1
  /\ UNCHANGED << bankVars, routingVars, storeVars, lastCall, pending >>

\* _ensure_session_exists from the construction of the row to the commit
EnsureInsert(w) ==
  /\ pc[w] = "insert_session"
  /\ \E r \in { InsertChatSession(Db, callArgs[w].name, callArgs[w].description) } :
       /\ SetDb(r.db)
       /\ returns' = SessionReturned(w, callArgs[w].name,
                                     IF r.raised THEN NULL ELSE "created")
  /\ pc' = [pc EXCEPT ![w] = "idle"]
  /\ UNCHANGED << bankVars, routingVars, requestVars, callArgs, pending >>

NextSessions == \E w \in Workers : EnsureQuery(w) \/ EnsureInsert(w)

SpecSessions == Init /\ [][NextSessions]_vars

\* C29: no construction of a manager ends with an exception, and once the
\* constructions for a session have ended the session has exactly one row
C29_ConcurrentSessionCreation ==
  /\ \A k \in 1..Len(returns) : returns[k].kind = "session" => returns[k].id # NULL
  /\ \A session_id \in SessionIds :
       /\ Len(SelectSeq(chatSessions, LAMBDA row : row.session_id = session_id)) <= 1
       /\ (\E k \in 1..Len(returns) :
              returns[k].kind = "session" /\ returns[k].name = session_id)
            => HasRow(chatSessions, "session_id", session_id)


\* C30: the coordinator leaves messages, user_id, session_id and
\* final_result as they were, sets (current_agent, task_type) to the
\* account pair or the support pair, and the conditional edge leads to the
\* node it named
C30_CoordinatorStateEffects ==
  [][CoordinatorRuns =>
       /\ state'.messages = state.messages
       /\ state'.user_id = state.user_id
       /\ state'.session_id = state.session_id
       /\ state'.final_result = state.final_result
       /\ DOMAIN state' = DOMAIN state
       /\ << state'.current_agent, state'.task_type >> \in
            { << "account_agent", "account_management" >>,
              << "support_agent", "customer_support" >> }
       /\ node' = state'.current_agent
       /\ ~graphRaised']_vars

\* the coordinator has run on a history of two messages and named the
\* account agent
C30_Witness ==
  /\ visited = << "coordinator" >>
  /\ Len(state.messages) = 2
  /\ state.current_agent = "account_agent"
  /\ state.task_type = "account_management"
  /\ node = "account_agent"
  /\ ~graphRaised


(***************************************************************************)
(* The logging request of a turn (banking_app.py, chatbot 801-833)         *)
(***************************************************************************)
\* outcomes of execute_trace over the tool-free traces of a session
LoggingOutcomes ==
  { g \in GraphOutcomes : g.raised # NULL \/ g.trace_events \in SessionTraces }

\* one turn: an input that the handler does not read on the path it takes
\* is fixed, so that each path is taken once per input it does read
ChatbotLogging ==
  /\ calls < MaxCalls
  /\ \E configured \in BOOLEAN :
     \E messages \in (IF configured THEN ChatRequests ELSE { <<>> }) :
     \E graph \in (IF configured /\ messages # <<>> THEN LoggingOutcomes
                   ELSE { [raised |-> "graph_failure", trace_events |-> <<>>, result |-> <<>>] }) :
     \E prep_raises \in (IF graph.raised = NULL THEN BOOLEAN ELSE { FALSE }) :
     \E handler_raises \in (IF configured /\ messages # <<>> /\ (graph.raised # NULL \/ prep_raises)
                            THEN BOOLEAN ELSE { FALSE }) :
     \E agent_name \in (IF configured /\ messages # <<>> /\ (graph.raised # NULL \/ prep_raises) /\ ~handler_raises
                        THEN RefusingAgents ELSE { "system" }) :
       \E turn \in { chatbot(Db, configured, messages, graph, prep_raises,
                             handler_raises, agent_name) } :
       \E service_up \in (IF turn.endpoint = NULL THEN { TRUE } ELSE BOOLEAN) :
       \E r \in { IF turn.endpoint = NULL THEN [db |-> Db, raised |-> FALSE]
                  ELSE call_analytics_service(Db, turn.endpoint, turn.hops,
                                              turn.res_dict, service_up) } :
          /\ SetDb(r.db)
          /\ lastCall' = [op |-> "chatbot", hops |-> turn.hops,
                          user_message |-> turn.user_message, raised |-> r.raised,
                          trace_id |-> IF turn.endpoint = NULL \/ ~service_up THEN NULL
                                       ELSE IF turn.endpoint = "chat/log-multi-agent-trace"
                                         THEN r.trace_id
                                       ELSE turn.res_dict.trace_id,
                          failure |-> turn.failure, endpoint |-> turn.endpoint,
                          requests |-> Len(turn.requested),
                          status |-> turn.status, response |-> turn.response,
                          error |-> turn.error, outer |-> turn.outer]
  /\ calls' = calls + 1
  /\ UNCHANGED << bankVars, routingVars, workerVars >>

NextLogging == ChatbotLogging

SpecLogging == Init /\ [][NextLogging]_vars

\* a turn that got as far as running the graph: the client was configured
\* and the request carried a message
TraceExecuted ==
  lastCall.op = "chatbot" /\ lastCall.status # 503 /\ lastCall.outer # "IndexError"

\* the logging request that belongs to the way the turn ended
EndpointOf(failure) ==
  IF failure = NULL THEN "chat/log-multi-agent-trace"
  ELSE "chat/log-content-safety-violation"

C32_FallbackOnlyForPolicy ==
  (/\ lastCall.op = "chatbot"
   /\ lastCall.endpoint = "chat/log-content-safety-violation"
   /\ \/ lastCall.response = NoResDict.message.content
      \/ Len(RowsOfTrace(chatHistory, lastCall.trace_id)) > 0)
    => lastCall.failure = "content_policy"


(***************************************************************************)
(* Single-agent trace logging (analytics_service.py, log_chat_trace)       *)
(***************************************************************************)
\* the 'type' key of a serialized message
SerializedType(msg) ==
  IF msg.cls = "HumanMessage" THEN "human"
  ELSE IF msg.cls = "AIMessage" THEN "ai"
  ELSE IF msg.cls = "ToolMessage" THEN "tool"
  ELSE NULL

\* TOOL_NAME_MAP.get(raw_tool_name, raw_tool_name)
CanonicalToolName(raw_tool_name) ==
  IF raw_tool_name = "get_user_accounts_for_current_user" THEN "get_user_accounts"
  ELSE IF raw_tool_name = "get_transactions_summary_for_current_user" THEN "get_transactions_summary"
  ELSE IF raw_tool_name = "create_new_account_for_current_user" THEN "create_new_account"
  ELSE IF raw_tool_name = "transfer_money_for_current_user" THEN "transfer_money"
  ELSE raw_tool_name

\* db.session.add(row) followed by the flush of the next query or of the
\* commit: the pending rows are in the transaction, nothing is committed
StageChatHistory(P, row) ==
  IF HasRow(P.db.chatHistory, "message_id", row.message_id)
    THEN [P EXCEPT !.raised = TRUE]
    ELSE [P EXCEPT !.db.chatHistory = Append(@, row)]

StageToolUsage(P, row) ==
  IF HasRow(P.db.toolUsage, "tool_call_id", row.tool_call_id)
    THEN [P EXCEPT !.raised = TRUE]
    ELSE [P EXCEPT !.db.toolUsage = Append(@, row)]

\* tool_info_dict[tool_call_id] = info
PutInfo(tool_info_dict, info) ==
  { x \in tool_info_dict : x.tool_call_id # info.tool_call_id } \cup { info }

\* the ToolUsage row built from an entry of tool_info_dict
UsageRow(info, session_id, trace_id, tool_output) ==
  [session_id |-> session_id, trace_id |-> trace_id,
   tool_call_id |-> info.tool_call_id, tool_id |-> info.tool_id,
   tool_name |-> info.tool_name, tool_input |-> info.tool_input,
   tool_output |-> tool_output, tool_message |-> tool_output,
   status |-> ToolCallStatus(tool_output), tokens_used |-> info.total_tokens,
   executing_agent |-> NULL]

\* body of `for msg in message_list`, every row staged in the transaction
LogTraceMsg(P, msg, session_id, user_id, trace_id, trace_duration_ms) ==
  IF SerializedType(msg) = "human" THEN
    StageChatHistory([P EXCEPT !.db.nextId = @ + 1],
      [BlankRow(FreshId("msg_", P.db.nextId), session_id, user_id, trace_id, "human")
         EXCEPT !.content = msg.content])
  ELSE IF SerializedType(msg) = "ai" THEN
    LET agent_id == IF msg.name # NULL THEN LookupAgent(P.db.agentDefs, msg.name) ELSE NULL
    IN IF msg.finish_reason = "tool_calls" THEN
         IF msg.tool_calls # <<>> THEN
           LET tool_call == msg.tool_calls[1]
               canonical_tool_name == CanonicalToolName(tool_call.name)
               tool_id == LookupTool(P.db.toolDefs, canonical_tool_name)
               staged == StageChatHistory(P,
                 [BlankRow(msg.id, session_id, user_id, trace_id, "tool_call")
                    EXCEPT !.agent_id = agent_id, !.tool_id = tool_id,
                           !.tool_call_id = tool_call.id,
                           !.tool_name = canonical_tool_name,
                           !.total_tokens = msg.total_tokens,
                           !.tool_input = tool_call.arguments,
                           !.finish_reason = msg.finish_reason])
           IN [staged EXCEPT !.tool_info_dict = PutInfo(@,
                 [tool_call_id |-> tool_call.id, tool_id |-> tool_id,
                  tool_name |-> canonical_tool_name,
                  tool_input |-> tool_call.arguments,
                  total_tokens |-> msg.total_tokens])]
         ELSE P
       ELSE
         StageChatHistory(P,
           [BlankRow(msg.id, session_id, user_id, trace_id, "ai")
              EXCEPT !.agent_id = agent_id, !.content = msg.content,
                     !.total_tokens = msg.total_tokens,
                     !.finish_reason = msg.finish_reason,
                     !.response_time_ms = trace_duration_ms])
  ELSE IF SerializedType(msg) = "tool" THEN
    LET tool_id == LookupTool(P.db.toolDefs, msg.name)
        staged == StageChatHistory(P,
          [BlankRow(msg.id, session_id, user_id, trace_id, "tool_result")
             EXCEPT !.tool_id = tool_id, !.tool_call_id = msg.tool_call_id,
                    !.tool_name = msg.name, !.content = <<>>,
                    !.tool_output = msg.content])
        known == { x \in P.tool_info_dict : x.tool_call_id = msg.tool_call_id }
    IN IF staged.raised \/ known = {} THEN staged
       ELSE LET info == CHOOSE x \in known : TRUE
            IN IF info.tool_id # NULL
                 THEN StageToolUsage(staged, UsageRow(info, session_id, trace_id, msg.content))
                 ELSE staged
  ELSE P

RECURSIVE LogTraceMsgs(_, _, _, _, _, _)
LogTraceMsgs(P, msgs, session_id, user_id, trace_id, trace_duration_ms) ==
  IF msgs = <<>> \/ P.raised THEN P
  ELSE LogTraceMsgs(LogTraceMsg(P, Head(msgs), session_id, user_id, trace_id,
                                trace_duration_ms),
                    Tail(msgs), session_id, user_id, trace_id, trace_duration_ms)

\* the faults of one call: none, the serializer raising, the commit failing
TraceFaults == { NULL, "serialize", "commit" }

\* log_chat_trace committing after each message instead of once at the end
log_chat_trace_committing_each(db, session_id, user_id, messages, trace_duration_ms, fault) ==
  LET with_session == ensure_session_exists(db, session_id, user_id)
      trace_id == FreshId("trace_", with_session.nextId)
      start == [db |-> [with_session EXCEPT !.nextId = @ + 1],
                tool_info_dict |-> {}, raised |-> FALSE]
      done == LogTraceMsgs(start, messages, session_id, user_id, trace_id,
                           trace_duration_ms)
  IN IF fault = "serialize"
       THEN [db |-> with_session, raised |-> TRUE, trace_id |-> NULL]
       ELSE [db |-> done.db, raised |-> done.raised \/ fault = "commit",
             trace_id |-> trace_id]

\* log_chat_trace: the session row in a commit of its own, then every row
\* of the trace in one transaction, rolled back when anything raises
log_chat_trace(db, session_id, user_id, messages, trace_duration_ms, fault) ==
  LET with_session == ensure_session_exists(db, session_id, user_id)
      trace_id == FreshId("trace_", with_session.nextId)
      start == [db |-> [with_session EXCEPT !.nextId = @ + 1],
                tool_info_dict |-> {}, raised |-> FALSE]
      done == LogTraceMsgs(start, messages, session_id, user_id, trace_id,
                           trace_duration_ms)
  IN IF fault = "serialize"
       THEN [db |-> with_session, raised |-> TRUE, trace_id |-> NULL]
     ELSE IF done.raised \/ fault = "commit"
       THEN [db |-> [with_session EXCEPT !.nextId = done.db.nextId],
             raised |-> TRUE, trace_id |-> trace_id]
     ELSE [db |-> done.db, raised |-> FALSE, trace_id |-> trace_id]

LogChatTrace ==
  /\ calls < MaxCalls
  /\ \E messages \in Conversations, fault \in TraceFaults :
       \E r \in { log_chat_trace(Db, "s1", "u1", messages, 7, fault) } :
          /\ SetDb(r.db)
          /\ lastCall' = [op |-> "log_chat_trace", hops |-> <<>>,
                          user_message |-> <<>>, raised |-> r.raised,
                          trace_id |-> r.trace_id, messages |-> messages,
                          fault |-> fault]
  /\ calls' = calls + 1
  /\ UNCHANGED << bankVars, routingVars, workerVars >>

NextLogTrace == LogChatTrace

SpecLogTrace == Init /\ [][NextLogTrace]_vars

\* C33: a call of log_chat_trace that raises leaves chat_history and
\* tool_usage as they were before the call; a call that returns has added one
\* chat_history row for every message of the trace, after the rows that
\* were there
C33_TraceAllOrNothing ==
  [][lastCall'.op = "log_chat_trace" /\ calls' = calls + 1 =>
       IF lastCall'.raised
         THEN chatHistory' = chatHistory /\ toolUsage' = toolUsage
         ELSE /\ Len(RowsOfTrace(chatHistory', lastCall'.trace_id)) = Len(lastCall'.messages)
              /\ Len(chatHistory') = Len(chatHistory) + Len(lastCall'.messages)
              /\ SubSeq(chatHistory', 1, Len(chatHistory)) = chatHistory
              /\ SubSeq(toolUsage', 1, Len(toolUsage)) = toolUsage]_vars

\* a second trace failed on a row of its own after earlier messages had
\* been staged, and the first trace's rows are all that is stored
C33_Witness ==
  /\ lastCall.op = "log_chat_trace"
  /\ lastCall.raised
  /\ lastCall.fault = NULL
  /\ Len(lastCall.messages) > 2
  /\ Len(chatHistory) > 0
  /\ RowsOfTrace(chatHistory, lastCall.trace_id) = <<>>
  /\ RowsOfTrace(toolUsage, lastCall.trace_id) = <<>>


(***************************************************************************)
(* Support search with retry (banking_app.py, search_support_documents)    *)
(***************************************************************************)
\* messages of the exceptions the vector store raises
ErrDropped == << "0", "8", "S", "0", "1" >>
ErrTcp == << "T", "C", "P", " ", "P", "r", "o", "v", "i", "d", "e", "r" >>
ErrConnection == << "C", "o", "n", "n", "e", "c", "t", "i", "o", "n", " ", "l", "o", "s", "t" >>
ErrTcpLower == << "t", "c", "p", " ", "p", "r", "o", "v", "i", "d", "e", "r" >>
ErrSyntax == << "b", "a", "d", " ", "s", "y", "n", "t", "a", "x" >>

\* outcomes of one similarity_search_with_score call
SearchOutcomes ==
  { [ok |-> TRUE, docs |-> n, err |-> <<>>] : n \in 0..1 }
  \cup { [ok |-> FALSE, docs |-> 0, err |-> e] :
           e \in { ErrDropped, ErrTcp, ErrConnection, ErrTcpLower, ErrSyntax } }

\* every failure taken for a dropped connection
IsConnectionErrorAny(err_str) == TRUE

\* "08S01" in err_str or "TCP Provider" in err_str or "connection" in err_str.lower()
IsConnectionError(err_str) ==
  \/ IsSubstring(<<"0","8","S","0","1">>, err_str)
  \/ IsSubstring(<< "T", "C", "P", " ", "P", "r", "o", "v", "i", "d", "e", "r" >>, err_str)
  \/ IsSubstring(<< "c", "o", "n", "n", "e", "c", "t", "i", "o", "n" >>, Lower(err_str))

max_attempts == 3

\* search_support_documents without its outer handler: a failure that is
\* not retried leaves the function
SearchAttemptUnhandled(call, outcome) ==
  LET attempt == call.attempt + 1
      tried == [call EXCEPT !.attempt = attempt, !.outcomes = Append(@, outcome)]
  IN IF outcome.ok
       THEN [tried EXCEPT !.pc = "returned",
                          !.result = IF outcome.docs = 0 THEN "No relevant support documents found to answer this question."
                                     ELSE "context"]
     ELSE IF IsConnectionError(outcome.err)
       THEN IF attempt < max_attempts THEN tried
            ELSE [tried EXCEPT !.pc = "returned",
                               !.result = "An error occurred while searching for support documents."]
     ELSE [tried EXCEPT !.pc = "returned", !.raised = TRUE]

\* one pass of `for attempt in range(1, max_attempts + 1)` and what follows
\* the loop when the pass ends it
SearchAttemptBody(call, outcome) ==
  LET attempt == call.attempt + 1
      tried == [call EXCEPT !.attempt = attempt, !.outcomes = Append(@, outcome)]
  IN IF outcome.ok
       THEN [tried EXCEPT !.pc = "returned",
                          !.result = IF outcome.docs = 0 THEN "No relevant support documents found to answer this question."
                                     ELSE "context"]
     ELSE IF IsConnectionError(outcome.err)
       THEN IF attempt < max_attempts THEN tried
            ELSE [tried EXCEPT !.pc = "returned",
                               !.result = "An error occurred while searching for support documents."]
     ELSE [tried EXCEPT !.pc = "returned",
                        !.result = "An error occurred while searching for support documents."]

\* the call starts: without a vector store it returns at once
SearchBegin ==
  /\ calls < MaxCalls
  /\ ~(lastCall.op = "search" /\ lastCall.pc = "attempt")
  /\ \E configured \in BOOLEAN :
       lastCall' = [op |-> "search", hops |-> <<>>, user_message |-> <<>>,
                    raised |-> FALSE, trace_id |-> NULL, configured |-> configured,
                    attempt |-> 0, outcomes |-> <<>>,
                    pc |-> IF configured THEN "attempt" ELSE "returned",
                    result |-> IF configured THEN NULL
                               ELSE "The vector store is not configured."]
  /\ calls' = calls + 1
  /\ UNCHANGED << bankVars, routingVars, storeVars, workerVars >>

SearchAttempt ==
  /\ lastCall.op = "search"
  /\ lastCall.pc = "attempt"
  /\ \E outcome \in SearchOutcomes : lastCall' = SearchAttemptBody(lastCall, outcome)
  /\ UNCHANGED << bankVars, routingVars, storeVars, workerVars, calls >>

NextSearch == SearchBegin \/ SearchAttempt

SpecSearch == Init /\ [][NextSearch]_vars

\* an outcome that is a failure whose message names a dropped connection
ConnectionFailure(outcome) ==
  /\ ~outcome.ok
  /\ \/ IsSubstring(<<"0","8","S","0","1">>, outcome.err)
     \/ IsSubstring(<< "T", "C", "P", " ", "P", "r", "o", "v", "i", "d", "e", "r" >>, outcome.err)
     \/ IsSubstring(<< "c", "o", "n", "n", "e", "c", "t", "i", "o", "n" >>, Lower(outcome.err))

\* C34: one call makes at most three search attempts, every attempt but the
\* last one failed with a connection-related error, and the call has
\* returned unless every attempt so far failed that way and fewer than
\* three were made
C34_BoundedSearchRetry ==
  lastCall.op = "search" =>
    /\ Len(lastCall.outcomes) <= 3
    /\ lastCall.attempt = Len(lastCall.outcomes)
    /\ \A k \in 1..(Len(lastCall.outcomes) - 1) : ConnectionFailure(lastCall.outcomes[k])
    /\ lastCall.pc = "attempt" <=>
         /\ lastCall.configured
         /\ Len(lastCall.outcomes) < 3
         /\ \A k \in 1..Len(lastCall.outcomes) : ConnectionFailure(lastCall.outcomes[k])

\* two dropped connections were followed by a third attempt that succeeded
C34_Witness ==
  /\ lastCall.op = "search"
  /\ lastCall.pc = "returned"
  /\ Len(lastCall.outcomes) = 3
  /\ ConnectionFailure(lastCall.outcomes[1])
  /\ ConnectionFailure(lastCall.outcomes[2])
  /\ lastCall.outcomes[3].ok

\* the strings search_support_documents returns
SearchResults ==
  { "The vector store is not configured.",
    "No relevant support documents found to answer this question.",
    "context",
    "An error occurred while searching for support documents." }

\* C35: a call that has ended has returned one of its strings and raised
\* nothing; it is the generic error message after three connection-related
\* failures and after any other failure
C35_SearchNeverRaises ==
  (lastCall.op = "search" /\ lastCall.pc = "returned") =>
    /\ ~lastCall.raised
    /\ lastCall.result \in SearchResults
    /\ ~lastCall.configured => lastCall.result = "The vector store is not configured."
    /\ (lastCall.configured /\ ~lastCall.outcomes[Len(lastCall.outcomes)].ok) =>
         lastCall.result = "An error occurred while searching for support documents."
    /\ (lastCall.configured /\ lastCall.outcomes[Len(lastCall.outcomes)].ok) =>
         lastCall.result = IF lastCall.outcomes[Len(lastCall.outcomes)].docs = 0
                             THEN "No relevant support documents found to answer this question."
                             ELSE "context"

\* a failure that is not connection-related ended the call after one retry
C35_Witness ==
  /\ lastCall.op = "search"
  /\ lastCall.pc = "returned"
  /\ Len(lastCall.outcomes) = 2
  /\ ~lastCall.outcomes[2].ok
  /\ ~ConnectionFailure(lastCall.outcomes[2])
  /\ lastCall.result = "An error occurred while searching for support documents."


(***************************************************************************)
(* Transfers between accounts (banking_app.py, transfer_money)             *)
(***************************************************************************)
\* the arguments of transfer_money_tool as the model passes them on; an
\* absent argument is NULL, an external recipient is its name
TransferRequest(from_account_name, to_account_name, amount, to_external_details) ==
  [from_account_name |-> from_account_name, to_account_name |-> to_account_name,
   amount |-> amount, to_external_details |-> to_external_details]

TransferRequests ==
  { TransferRequest("checking", NULL, 40, NULL),
    TransferRequest("checking", "savings", 0, NULL),
    TransferRequest("ghost", "savings", 40, NULL),
    TransferRequest("checking", "ghost", 40, NULL),
    TransferRequest("checking", "savings", 100, NULL),
    TransferRequest("checking", "savings", 60, NULL),
    TransferRequest("savings", "checking", 40, NULL),
    TransferRequest("checking", NULL, 40, "landlord") }

\* not from_account_name or (not to_account_name and not to_external_details) or amount <= 0
MissingDetails(request) ==
  \/ request.from_account_name = NULL
  \/ (request.to_account_name = NULL /\ request.to_external_details = NULL)
  \/ request.amount <= 0

\* Account.query.filter_by(user_id=user_id, name=name).first(): the id of
\* the account or NULL
AccountByName(accts, user_id, name) ==
  IF \E id \in DOMAIN accts : accts[id].user_id = user_id /\ accts[id].name = name
    THEN CHOOSE id \in DOMAIN accts : accts[id].user_id = user_id /\ accts[id].name = name
    ELSE NULL

NoSnapshot == [from_id |-> NULL, from_balance |-> 0, to_id |-> NULL, to_balance |-> 0]

\* the commit that leaves the debit in place when the store raises
TransferCommitKeepingDebit(accts, txs, request, snap, commit_fails) ==
  LET debited == [accts EXCEPT ![snap.from_id].balance = snap.from_balance - request.amount]
      credited == IF snap.to_id = NULL THEN debited
                  ELSE [debited EXCEPT ![snap.to_id].balance = snap.to_balance + request.amount]
      new_transaction == [from_account_id |-> snap.from_id, to_account_id |-> snap.to_id,
                          amount |-> request.amount, type |-> "transfer",
                          status |-> "completed"]
  IN IF commit_fails
       THEN [accounts |-> debited, transactions |-> txs, result |-> "store_error"]
       ELSE [accounts |-> credited, transactions |-> Append(txs, new_transaction),
             result |-> "success"]

\* from_account.balance -= amount; to_account.balance += amount;
\* db.session.add(new_transaction); db.session.commit(): the balances written
\* are computed from the values this call loaded; a failing commit is
\* rolled back
TransferCommitResult(accts, txs, request, snap, commit_fails) ==
  LET debited == [accts EXCEPT ![snap.from_id].balance = snap.from_balance - request.amount]
      credited == IF snap.to_id = NULL THEN debited
                  ELSE [debited EXCEPT ![snap.to_id].balance = snap.to_balance + request.amount]
      new_transaction == [from_account_id |-> snap.from_id, to_account_id |-> snap.to_id,
                          amount |-> request.amount, type |-> "transfer",
                          status |-> "completed"]
  IN IF commit_fails
       THEN [accounts |-> accts, transactions |-> txs, result |-> "store_error"]
       ELSE [accounts |-> credited, transactions |-> Append(txs, new_transaction),
             result |-> "success"]

TransferReturned(w, request, result) ==
  [op |-> "transfer_money", hops |-> <<>>, user_message |-> <<>>, raised |-> FALSE,
   trace_id |-> NULL, worker |-> w, request |-> request, result |-> result]

\* the call up to its first query: the test of the arguments, the source
\* account and the test of its balance
TransferBegin(w) ==
  /\ pc[w] = "idle"
  /\ calls < MaxRegCalls
  /\ calls' = calls + 1
  /\ \E request \in TransferRequests :
       \E from_id \in { AccountByName(accounts, "u1", request.from_account_name) } :
         IF MissingDetails(request)
           THEN /\ lastCall' = TransferReturned(w, request, "missing_details")
                /\ UNCHANGED << pc, callArgs, pending >>
         ELSE IF from_id = NULL
           THEN /\ lastCall' = TransferReturned(w, request, "account_not_found")
                /\ UNCHANGED << pc, callArgs, pending >>
         ELSE IF accounts[from_id].balance < request.amount
           THEN /\ lastCall' = TransferReturned(w, request, "insufficient_funds")
                /\ UNCHANGED << pc, callArgs, pending >>
         ELSE /\ callArgs' = [callArgs EXCEPT ![w] = request]
              /\ pending' = [pending EXCEPT ![w] =
                               [NoSnapshot EXCEPT !.from_id = from_id,
                                                  !.from_balance = accounts[from_id].balance]]
              /\ pc' = [pc EXCEPT ![w] = IF request.to_account_name # NULL
                                           THEN "transfer_read_to" ELSE "transfer_commit"]
              /\ UNCHANGED lastCall
  /\ UNCHANGED << bankVars, routingVars, storeVars, returns >>

\* the query of the recipient account
TransferReadTo(w) ==
  /\ pc[w] = "transfer_read_to"
  /\ \E to_id \in { AccountByName(accounts, "u1", callArgs[w].to_account_name) } :
       IF to_id = NULL
         THEN /\ lastCall' = TransferReturned(w, callArgs[w], "recipient_not_found")
              /\ pc' = [pc EXCEPT ![w] = "idle"]
              /\ callArgs' = [callArgs EXCEPT ![w] = NoArgs]
              /\ pending' = [pending EXCEPT ![w] = NoPending]
         ELSE /\ pending' = [pending EXCEPT ![w] =
                               [@ EXCEPT !.to_id = to_id,
                                         !.to_balance = accounts[to_id].balance]]
              /\ pc' = [pc EXCEPT ![w] = "transfer_commit"]
              /\ UNCHANGED << lastCall, callArgs >>
  /\ UNCHANGED << bankVars, routingVars, storeVars, returns, calls >>

\* the updates, the insert and the commit, or the rollback when it fails
TransferCommit(w) ==
  /\ pc[w] = "transfer_commit"
  /\ \E commit_fails \in BOOLEAN :
       \E r \in { TransferCommitResult(accounts, transactions, callArgs[w],
                                       pending[w], commit_fails) } :
          /\ accounts' = r.accounts
          /\ transactions' = r.transactions
          /\ lastCall' = TransferReturned(w, callArgs[w], r.result)
  /\ pc' = [pc EXCEPT ![w] = "idle"]
  /\ callArgs' = [callArgs EXCEPT ![w] = NoArgs]
  /\ pending' = [pending EXCEPT ![w] = NoPending]
  /\ UNCHANGED << routingVars, storeVars, returns, calls >>

NextTransfer == \E w \in Workers : TransferBegin(w) \/ TransferReadTo(w) \/ TransferCommit(w)

SpecTransfer == Init /\ [][NextTransfer]_vars

\* a step in which a call of transfer_money returns
TransferReturns ==
  /\ lastCall'.op = "transfer_money"
  /\ \E w \in Workers :
       /\ lastCall'.worker = w
       /\ pc'[w] = "idle"
       /\ pc[w] # "idle" \/ calls' = calls + 1

\* C36: a call of transfer_money that returns an error result has changed
\* no balance and added no transaction
C36_ErrorLeavesStateUnchanged ==
  [][(TransferReturns /\ lastCall'.result # "success") =>
       (accounts' = accounts /\ transactions' = transactions)]_vars

\* a transfer whose commit failed was rolled back after another transfer
\* had been committed
C36_Witness ==
  /\ lastCall.op = "transfer_money"
  /\ lastCall.result = "store_error"
  /\ Len(transactions) = 1
  /\ accounts["acc_1"].balance + accounts["acc_2"].balance = 150


\* the amounts of the committed transfers that left for an external account
RECURSIVE ExternalOutflow(_)
ExternalOutflow(txs) ==
  IF txs = <<>> THEN 0
  ELSE (IF Head(txs).to_account_id = NULL THEN Head(txs).amount ELSE 0)
       + ExternalOutflow(Tail(txs))

\* C37: under every interleaving of transfer_money calls no balance is
\* negative, and as long as every committed transfer is internal the
\* balances of the accounts add up to what they were at the start
C37_NoOverdraftAndConservation ==
  /\ \A id \in DOMAIN accounts : accounts[id].balance >= 0
  /\ ExternalOutflow(transactions) = 0 =>
       accounts["acc_1"].balance + accounts["acc_2"].balance
         = InitAccounts["acc_1"].balance + InitAccounts["acc_2"].balance


(***************************************************************************)
(* History handed to the graph (analytics_service.py                       *)
(* get_chat_history_for_session, banking_app.py                            *)
(* reconstruct_messages_from_history)                                      *)
(***************************************************************************)
\* turns of a session: one with a tool round, the user's next message, and
\* a turn answered at once
HistoryTraces ==
  { << Hop("coordinator", 0, << c[1] >>), Hop("account_agent", 1, c) >> :
      c \in { << EvHuman, EvCallOne, EvResult1, EvFinal >>,
              << EvHumanNext, EvFinalNext >>,
              << EvHuman, EvFinal >> } }

RECURSIVE Reverse(_)
Reverse(seq) == IF seq = <<>> THEN <<>> ELSE Append(Reverse(Tail(seq)), Head(seq))

\* .limit(50)
HistoryLimit == 50

\* the rows of the session ordered by desc(trace_end). No writer of the
\* manager sets trace_end and the column default is one datetime taken when
\* the class is defined, so the rows tie and the store returns them in an
\* order of its choosing: two such orders are modelled, latest insert first
\* and earliest insert first
TieOrders(rows) == { Reverse(rows), rows }

\* get_chat_history_for_session: the first 50 rows of the ordered result,
\* reversed, each as a dict of trace_id, message_type and content
get_chat_history_for_session(db, session_id, ordered) ==
  LET limited == SubSeq(ordered, 1, IF Len(ordered) < HistoryLimit THEN Len(ordered) ELSE HistoryLimit)
      result == Reverse(limited)
  IN [i \in 1..Len(result) |->
        [trace_id |-> result[i].trace_id, message_type |-> result[i].message_type,
         content |-> result[i].content]]

\* the keys of `traces`
TraceIdsOf(history_data) == { history_data[i].trace_id : i \in 1..Len(history_data) }

\* sorted(traces.keys()): the trace ids are uuid4 strings, so their sorted
\* order is any order of the ids
SortedTraceIds(history_data) ==
  LET ids == TraceIdsOf(history_data)
  IN { p \in [1..Cardinality(ids) -> ids] : \A i, j \in DOMAIN p : i # j => p[i] # p[j] }

\* trace_messages.sort(key=(priority, trace_end)): a stable sort, and the
\* trace_end values are equal
SortByPriority(trace_messages) ==
  SelectSeq(trace_messages, LAMBDA m : m.message_type = "human")
  \o SelectSeq(trace_messages, LAMBDA m : m.message_type = "ai")
  \o SelectSeq(trace_messages, LAMBDA m : m.message_type \notin { "human", "ai" })

\* the messages one trace contributes; trace_id stays on the message to
\* relate it to its row
MessagesOfTrace(trace_messages) ==
  LET kept == SelectSeq(SortByPriority(trace_messages),
                        LAMBDA m : m.message_type \in { "human", "ai" })
  IN [i \in 1..Len(kept) |->
        [cls |-> IF kept[i].message_type = "human" THEN "HumanMessage" ELSE "AIMessage",
         content |-> kept[i].content, trace_id |-> kept[i].trace_id]]

\* reconstruct_messages_from_history: group by trace id, take the traces in
\* the sorted order of their ids, human before ai inside each
RECURSIVE reconstruct_messages_from_history(_, _, _)
reconstruct_messages_from_history(history_data, sorted_trace_ids, k) ==
  IF k > Len(sorted_trace_ids) THEN <<>>
  ELSE MessagesOfTrace(SelectSeq(history_data, LAMBDA m : m.trace_id = sorted_trace_ids[k]))
       \o reconstruct_messages_from_history(history_data, sorted_trace_ids, k + 1)

\* one turn of a session is logged
LogHistoryTrace ==
  /\ calls < MaxCalls
  /\ \E session_id \in SessionIds, hops \in HistoryTraces :
       \E r \in { add_multi_agent_trace(ensure_session_exists(Db, session_id, "u1"),
                                        session_id, "u1", hops) } :
          /\ SetDb(r.db)
          /\ lastCall' = [LifecycleCall("reconcile", session_id, "u1", r.raised,
                                        r.trace_id) EXCEPT !.hops = hops]
  /\ calls' = calls + 1
  /\ UNCHANGED << bankVars, routingVars, workerVars >>

\* the next turn fetches the session's history and rebuilds the messages
ReconstructHistory ==
  /\ lastCall.op # "reconstruct"
  /\ \E session_id \in SessionIds :
     \E ordered \in TieOrders(SelectSeq(chatHistory, LAMBDA row : row.session_id = session_id)) :
     \E history_data \in { get_chat_history_for_session(Db, session_id, ordered) } :
     \E sorted_trace_ids \in SortedTraceIds(history_data) :
       lastCall' = [op |-> "reconstruct", hops |-> <<>>, user_message |-> <<>>,
                    raised |-> FALSE, trace_id |-> NULL, session_id |-> session_id,
                    history_data |-> history_data,
                    messages |-> reconstruct_messages_from_history(history_data,
                                                                   sorted_trace_ids, 1)]
  /\ UNCHANGED << bankVars, routingVars, storeVars, workerVars, calls >>

NextHistory == LogHistoryTrace \/ ReconstructHistory

SpecHistory == Init /\ [][NextHistory]_vars

\* the position of a trace in time: where its first row stands in
\* chat_history
LoggedAt(trace_id) ==
  CHOOSE i \in 1..Len(chatHistory) :
    /\ chatHistory[i].trace_id = trace_id
    /\ \A j \in 1..(i - 1) : chatHistory[j].trace_id # trace_id

\* C38: the rebuilt messages come trace by trace in the order in which the
\* traces were logged, every human message of a trace before its ai
\* messages, and only human and ai rows give a message
C38_ReconstructionOrder ==
  lastCall.op = "reconstruct" =>
    LET messages == lastCall.messages
    IN /\ \A i, j \in 1..Len(messages) :
            i < j => LoggedAt(messages[i].trace_id) <= LoggedAt(messages[j].trace_id)
       /\ \A i, j \in 1..Len(messages) :
            (/\ i < j
             /\ messages[i].trace_id = messages[j].trace_id
             /\ messages[j].cls = "HumanMessage") => messages[i].cls = "HumanMessage"
       /\ Len(messages) =
            Len(SelectSeq(lastCall.history_data,
                          LAMBDA m : m.message_type \in { "human", "ai" }))


(***************************************************************************)
(* Clearing one session among several (chat_data_model.py,                 *)
(* clear_session_data)                                                     *)
(***************************************************************************)
\* session s2 of user u2 holds a turn with a tool round
OtherSessionTrace ==
  << Hop("coordinator", 0, << EvHumanNext >>),
     Hop("account_agent", 1, << EvHumanNext, EvCallThree, EvResult4, EvFinalNext >>) >>

\* the store after startup seeding and the logging of that turn
InitClear ==
  /\ InitRoutingIdle
  /\ \E seeded \in { SeededDb } :
     \E db \in { add_multi_agent_trace(ensure_session_exists(seeded, "s2", "u2"),
                                       "s2", "u2", OtherSessionTrace).db } :
       /\ chatSessions = db.chatSessions
       /\ chatHistory = db.chatHistory
       /\ agentTraces = db.agentTraces
       /\ toolUsage = db.toolUsage
       /\ agentDefs = db.agentDefs
       /\ toolDefs = db.toolDefs
       /\ nextId = db.nextId
  /\ InitRequests
  /\ InitWorkers
  /\ InitBank

NextClear == LogHistoryTrace \/ ClearSessionData \/ ClearChatHistory

SpecClear == InitClear /\ [][NextClear]_vars

\* the rows of a table that belong to the session
OfSession(table, session_id) ==
  SelectSeq(table, LAMBDA row : row.session_id = session_id)

\* the rows of a table that belong to any other session
OfOtherSessions(table, session_id) ==
  SelectSeq(table, LAMBDA row : row.session_id # session_id)

\* C39: a clear_session_data that commits leaves no row of the session in
\* chat_history, tool_usage, agent_traces and chat_sessions, keeps the rows
\* of every other session and the agent and tool definitions; one that
\* fails leaves every table as it was
C39_ClearOneSessionOnly ==
  [][(lastCall'.op = "clear_session_data" /\ calls' = calls + 1) =>
       IF lastCall'.raised
         THEN UNCHANGED storeVars
         ELSE /\ OfSession(chatHistory', lastCall'.session_id) = <<>>
              /\ OfSession(toolUsage', lastCall'.session_id) = <<>>
              /\ OfSession(agentTraces', lastCall'.session_id) = <<>>
              /\ OfSession(chatSessions', lastCall'.session_id) = <<>>
              /\ chatHistory' = OfOtherSessions(chatHistory, lastCall'.session_id)
              /\ toolUsage' = OfOtherSessions(toolUsage, lastCall'.session_id)
              /\ agentTraces' = OfOtherSessions(agentTraces, lastCall'.session_id)
              /\ chatSessions' = OfOtherSessions(chatSessions, lastCall'.session_id)
              /\ agentDefs' = agentDefs
              /\ toolDefs' = toolDefs]_vars

\* session s2, which held a turn with a tool round, was cleared after
\* session s1 had been logged, and s1 keeps its messages, its tool usage,
\* its hops and its row
C39_Witness ==
  /\ lastCall.op = "clear_session_data"
  /\ lastCall.session_id = "s2"
  /\ ~lastCall.raised
  /\ OfSession(chatHistory, "s2") = <<>>
  /\ OfSession(toolUsage, "s2") = <<>>
  /\ ~HasRow(chatSessions, "session_id", "s2")
  /\ Len(OfSession(chatHistory, "s1")) = 4
  /\ Len(OfSession(toolUsage, "s1")) = 1
  /\ Len(OfSession(agentTraces, "s1")) = 2
  /\ HasRow(chatSessions, "session_id", "s1")

====
